---- MODULE Spec2Model ----
(***************************************************************************)
(* Model of the CC2420 radio driver (Radio controller in src/src/lib.rs,   *)
(* RAM addressing in src/src/ram.rs, status and strobe decoding in          *)
(* src/src/status.rs and src/src/strobe.rs, register codecs under           *)
(* src/src/register/).                                                      *)
(*                                                                          *)
(* The transport (SPI), the two input lines and the delay provider are      *)
(* external collaborators: every call to one of them is appended to the     *)
(* log `io`, and what they answer is chosen nondeterministically.           *)
(***************************************************************************)
EXTENDS Integers, Sequences, FiniteSets, TLC

VARIABLES powered_up, pc, call, local, io, ret, codec

vars == <<powered_up, pc, call, local, io, ret, codec>>

(***************************************************************************)
(* Bounds of the model                                                      *)
(***************************************************************************)
\* longest payload handed to send / send_frame
MaxDataLen == 257
\* longest caller buffer handed to receive, write_ram and read_ram
MaxBufLen == 130
\* largest number of "not yet" answers of a polled flag or line
MaxPoll == 2

(***************************************************************************)
(* Bit arithmetic on unsigned integers                                      *)
(***************************************************************************)
RECURSIVE Pow2(_)
Pow2(n) == IF n = 0 THEN 1 ELSE 2 * Pow2(n - 1)

Shl(v, k) == v * Pow2(k)

Shr(v, k) == v \div Pow2(k)

RECURSIVE BitAnd(_, _)
BitAnd(a, b) ==
    IF a = 0 \/ b = 0 THEN 0
    ELSE (IF a % 2 = 1 /\ b % 2 = 1 THEN 1 ELSE 0) + 2 * BitAnd(a \div 2, b \div 2)

RECURSIVE BitOr(_, _)
BitOr(a, b) ==
    IF a = 0 THEN b
    ELSE IF b = 0 THEN a
    ELSE (IF a % 2 = 1 \/ b % 2 = 1 THEN 1 ELSE 0) + 2 * BitOr(a \div 2, b \div 2)

AsU8(v) == v % 256

Min(a, b) == IF a < b THEN a ELSE b

\* seq[from .. to) with 0-based bounds, as a Rust range slice
Slice(seq, from, to) == [i \in 1..(to - from) |-> seq[from + i]]

Zeros(n) == [i \in 1..n |-> 0]

to_be_bytes(v) == <<Shr(v, 8) % 256, v % 256>>

to_le_bytes(v) == <<v % 256, Shr(v, 8) % 256>>

from_be_bytes(b) == Shl(b[1], 8) + b[2]

from_le_bytes(b) == b[1] + Shl(b[2], 8)

(***************************************************************************)
(* status.rs: the status byte                                               *)
(***************************************************************************)
\* faulty variant: lock read from bit 3, the bit of tx_active
RadioStatus_mut(value) ==
    [xosx_stable  |-> BitAnd(value, Shl(1, 6)) # 0,
     tx_underflow |-> BitAnd(value, Shl(1, 5)) # 0,
     enc_busy     |-> BitAnd(value, Shl(1, 4)) # 0,
     tx_active    |-> BitAnd(value, Shl(1, 3)) # 0,
     lock         |-> BitAnd(value, Shl(1, 3)) # 0,
     rssi_valud   |-> BitAnd(value, Shl(1, 1)) # 0]

RadioStatus(value) ==
    [xosx_stable  |-> BitAnd(value, Shl(1, 6)) # 0,
     tx_underflow |-> BitAnd(value, Shl(1, 5)) # 0,
     enc_busy     |-> BitAnd(value, Shl(1, 4)) # 0,
     tx_active    |-> BitAnd(value, Shl(1, 3)) # 0,
     lock         |-> BitAnd(value, Shl(1, 2)) # 0,
     rssi_valud   |-> BitAnd(value, Shl(1, 1)) # 0]

(***************************************************************************)
(* strobe.rs: the command strobes                                           *)
(***************************************************************************)
\* faulty variant: FlushTx given the opcode of FlushRx
Strobe_mut ==
    [ReadStatus |-> 0, XOSCOn |-> 1, CalibrateFrequency |-> 2, EnableRx |-> 3,
     EnableTx |-> 4, EnableTxCCA |-> 5, DisableRxTx |-> 6, XOSCOff |-> 7,
     FlushRx |-> 8, FlushTx |-> 8, Ack |-> 10, AckPend |-> 11,
     RxDecryption |-> 12, TxEncryption |-> 13, AesEncryption |-> 14,
     TxFifo |-> 62, RxFifo |-> 63]

Strobe ==
    [ReadStatus |-> 0, XOSCOn |-> 1, CalibrateFrequency |-> 2, EnableRx |-> 3,
     EnableTx |-> 4, EnableTxCCA |-> 5, DisableRxTx |-> 6, XOSCOff |-> 7,
     FlushRx |-> 8, FlushTx |-> 9, Ack |-> 10, AckPend |-> 11,
     RxDecryption |-> 12, TxEncryption |-> 13, AesEncryption |-> 14,
     TxFifo |-> 62, RxFifo |-> 63]

opcode(strobe) == AsU8(Strobe[strobe])

(***************************************************************************)
(* ram.rs: the RAM sectors                                                  *)
(***************************************************************************)
Ram ==
    [ShortAddress |-> 362, PanID |-> 360, IEEEAddress |-> 352, TxNonce |-> 320,
     Key1 |-> 304, EncryptionBuffer |-> 288, RxNonce |-> 272, Key0 |-> 256,
     RxFifo |-> 128, TxFifo |-> 0]

RamSectors == DOMAIN Ram

\* faulty variant: the bank is not shifted down into bits 7:6
read_address_mut(ram) ==
    <<AsU8(BitOr(BitAnd(127, Ram[ram]), Shl(1, 7))),
      AsU8(BitOr(BitAnd(Shl(3, 7), Ram[ram]), Shl(1, 5)))>>

read_address(ram) ==
    <<AsU8(BitOr(BitAnd(127, Ram[ram]), Shl(1, 7))),
      AsU8(BitOr(Shr(BitAnd(Shl(3, 7), Ram[ram]), 1), Shl(1, 5)))>>

write_address(ram) ==
    <<AsU8(BitOr(BitAnd(127, Ram[ram]), Shl(1, 7))),
      AsU8(Shr(BitAnd(Shl(3, 7), Ram[ram]), 1))>>

\* faulty variant: the IEEE address and FIFO sectors with a wrong length
length_mut(ram) ==
    CASE ram \in {"ShortAddress", "PanID"} -> 2
      [] ram = "IEEEAddress" -> 16
      [] ram \in {"TxNonce", "Key1", "EncryptionBuffer", "RxNonce", "Key0"} -> 16
      [] ram \in {"RxFifo", "TxFifo"} -> 129

length(ram) ==
    CASE ram \in {"ShortAddress", "PanID"} -> 2
      [] ram = "IEEEAddress" -> 8
      [] ram \in {"TxNonce", "Key1", "EncryptionBuffer", "RxNonce", "Key0"} -> 16
      [] ram \in {"RxFifo", "TxFifo"} -> 128

(***************************************************************************)
(* register/: the register codecs used by the controller                    *)
(* An unset builder field is the empty set, a set field is a singleton.     *)
(***************************************************************************)
UnwrapOr(opt, default) == IF opt = {} THEN default ELSE CHOOSE v \in opt : TRUE

\* register.rs, Register::address: the fixed 6-bit register addresses
RegisterAddress ==
    [MAIN |-> 16, MDMCTRL0 |-> 17, SYNCWORD |-> 20, SECCTRL0 |-> 25,
     MANFIDL |-> 30, MANFIDH |-> 31]

ModemControlRegister0Builder_default ==
    [reserved_frame_mode |-> {}, pan_coordinator |-> {}, adr_decode |-> {},
     cca_hyst |-> {}, cca_mode |-> {}, auto_crc |-> {}, auto_ack |-> {},
     preamble_length |-> {}]

\* faulty variant: a preamble length of 16 is let through
ModemControlRegister0Builder_validate_mut(b) ==
    IF \E cca_hyst \in b.cca_hyst : cca_hyst > 7
    THEN "Invalid CCA Hyst, Expected 0<=CCA_HYST<=7"
    ELSE IF \E cca_mode \in b.cca_mode : cca_mode = 0 \/ cca_mode > 3
    THEN "Invalid CCA Mode, Expected 1<=CCA_MODE<=3"
    ELSE IF \E preamble_length \in b.preamble_length : preamble_length > 16
    THEN "Invalid Preamble Length, Expected 0<=PREAMBLE_LENGTH<=15"
    ELSE ""

\* "" stands for Ok(()), any other string is the Err message
ModemControlRegister0Builder_validate(b) ==
    IF \E cca_hyst \in b.cca_hyst : cca_hyst > 7
    THEN "Invalid CCA Hyst, Expected 0<=CCA_HYST<=7"
    ELSE IF \E cca_mode \in b.cca_mode : cca_mode = 0 \/ cca_mode > 3
    THEN "Invalid CCA Mode, Expected 1<=CCA_MODE<=3"
    ELSE IF \E preamble_length \in b.preamble_length : preamble_length > 15
    THEN "Invalid Preamble Length, Expected 0<=PREAMBLE_LENGTH<=15"
    ELSE ""

\* build validates first: the Err is [error |-> message], Ok is the register
\* with the unset fields at their defaults
ModemControlRegister0Builder_build(b) ==
    IF ModemControlRegister0Builder_validate(b) # ""
    THEN [error |-> ModemControlRegister0Builder_validate(b)]
    ELSE [reserved_frame_mode |-> UnwrapOr(b.reserved_frame_mode, FALSE),
          pan_coordinator     |-> UnwrapOr(b.pan_coordinator, FALSE),
          adr_decode          |-> UnwrapOr(b.adr_decode, TRUE),
          cca_hyst            |-> UnwrapOr(b.cca_hyst, 2),
          cca_mode            |-> UnwrapOr(b.cca_mode, 3),
          auto_crc            |-> UnwrapOr(b.auto_crc, TRUE),
          auto_ack            |-> UnwrapOr(b.auto_ack, FALSE),
          preamble_length     |-> UnwrapOr(b.preamble_length, 2)]

ModemControlRegister0_register_value(r) ==
    LET v1 == IF r.reserved_frame_mode THEN Shl(1, 13) ELSE 0
        v2 == IF r.pan_coordinator THEN BitOr(v1, Shl(1, 12)) ELSE v1
        v3 == IF r.adr_decode THEN BitOr(v2, Shl(1, 11)) ELSE v2
        v4 == BitOr(v3, Shl(r.cca_hyst, 8))
        v5 == BitOr(v4, Shl(r.cca_mode, 6))
        v6 == IF r.auto_crc THEN BitOr(v5, Shl(1, 5)) ELSE v5
        v7 == IF r.auto_ack THEN BitOr(v6, Shl(1, 4)) ELSE v6
    IN  BitOr(v7, r.preamble_length) % 65536

ModemControlRegister0_from(value) ==
    [reserved_frame_mode |-> BitAnd(Shl(1, 13), value) # 0,
     pan_coordinator     |-> BitAnd(Shl(1, 12), value) # 0,
     adr_decode          |-> BitAnd(Shl(1, 11), value) # 0,
     cca_hyst            |-> AsU8(Shr(BitAnd(Shl(7, 8), value), 8)),
     cca_mode            |-> AsU8(Shr(BitAnd(Shl(3, 6), value), 6)),
     auto_crc            |-> BitAnd(Shl(1, 5), value) # 0,
     auto_ack            |-> BitAnd(Shl(1, 4), value) # 0,
     preamble_length     |-> AsU8(BitAnd(value, 15))]

SyncWordRegisterBuilder_build(b) == [sync_word |-> UnwrapOr(b.sync_word, 42767)]

SyncWordRegister_register_value(r) == r.sync_word

SyncWordRegister_from(value) == [sync_word |-> value]

MainControlRegisterBuilder_build(b) ==
    [reset_n        |-> UnwrapOr(b.reset_n, TRUE),
     enc_reset_n    |-> UnwrapOr(b.enc_reset_n, TRUE),
     demod_reset_n  |-> UnwrapOr(b.demod_reset_n, TRUE),
     mod_reset_n    |-> UnwrapOr(b.mod_reset_n, TRUE),
     fs_reset_n     |-> UnwrapOr(b.fs_reset_n, TRUE),
     xosc16m_bypass |-> UnwrapOr(b.xosc16m_bypass, FALSE)]

MainControlRegister_register_value(r) ==
    LET v0 == 63488
        v1 == IF ~r.reset_n THEN v0 - BitAnd(v0, Shl(1, 15)) ELSE v0
        v2 == IF ~r.enc_reset_n THEN v1 - BitAnd(v1, Shl(1, 14)) ELSE v1
        v3 == IF ~r.demod_reset_n THEN v2 - BitAnd(v2, Shl(1, 13)) ELSE v2
        v4 == IF ~r.mod_reset_n THEN v3 - BitAnd(v3, Shl(1, 12)) ELSE v3
        v5 == IF ~r.fs_reset_n THEN v4 - BitAnd(v4, Shl(1, 11)) ELSE v4
    IN  IF r.xosc16m_bypass THEN BitOr(v5, 1) ELSE v5

\* SecurityControlRegister0Builder::default(): no field set
SecurityControlRegister0Builder_default ==
    [rx_fifo_protection |-> {}, sec_cbc_head |-> {}, sec_sa_key_sel |-> {},
     sec_tx_key_sel |-> {}, sec_rx_key_sel |-> {}, sec_m |-> {}, sec_mode |-> {}]

\* the message of the Err, "" for Ok(())
SecurityControlRegister0Builder_validate(b) ==
    IF \E sec_m \in b.sec_m : sec_m = 0 \/ sec_m > 7
    THEN "Invalid SEC_M. Expected 1<=SEC_M<=7"
    ELSE IF \E sec_mode \in b.sec_mode : sec_mode > 3
    THEN "Invalid SEC_MODE. Expected 0<=SEC_MODE<=3"
    ELSE ""

\* build validates first: the Err is [error |-> message], Ok is the register
\* with the unset fields at their defaults
SecurityControlRegister0Builder_build(b) ==
    IF SecurityControlRegister0Builder_validate(b) # ""
    THEN [error |-> SecurityControlRegister0Builder_validate(b)]
    ELSE [rx_fifo_protection |-> UnwrapOr(b.rx_fifo_protection, TRUE),
          sec_cbc_head       |-> UnwrapOr(b.sec_cbc_head, TRUE),
          sec_sa_key_sel     |-> UnwrapOr(b.sec_sa_key_sel, TRUE),
          sec_tx_key_sel     |-> UnwrapOr(b.sec_tx_key_sel, TRUE),
          sec_rx_key_sel     |-> UnwrapOr(b.sec_rx_key_sel, FALSE),
          sec_m              |-> UnwrapOr(b.sec_m, 1),
          sec_mode           |-> UnwrapOr(b.sec_mode, 0)]

SecurityControlRegister0_register_value(r) ==
    LET v1 == IF r.rx_fifo_protection THEN Shl(1, 9) ELSE 0
        v2 == IF r.sec_cbc_head THEN BitOr(v1, Shl(1, 8)) ELSE v1
        v3 == IF r.sec_sa_key_sel THEN BitOr(v2, Shl(1, 7)) ELSE v2
        v4 == IF r.sec_tx_key_sel THEN BitOr(v3, Shl(1, 6)) ELSE v3
        v5 == IF r.sec_rx_key_sel THEN BitOr(v4, Shl(1, 5)) ELSE v4
        v6 == BitOr(v5, Shl(r.sec_m, 2))
    IN  BitOr(v6, r.sec_mode) % 65536

SecurityControlRegister0_from(value) ==
    [rx_fifo_protection |-> BitAnd(Shl(1, 9), value) # 0,
     sec_cbc_head       |-> BitAnd(Shl(1, 8), value) # 0,
     sec_sa_key_sel     |-> BitAnd(Shl(1, 7), value) # 0,
     sec_tx_key_sel     |-> BitAnd(Shl(1, 6), value) # 0,
     sec_rx_key_sel     |-> BitAnd(Shl(1, 5), value) # 0,
     sec_m              |-> AsU8(Shr(BitAnd(Shl(7, 2), value), 2)),
     sec_mode           |-> AsU8(BitAnd(3, value))]

LowerManufacturerIDBuilder_build(b) ==
    [part_num |-> UnwrapOr(b.part_num, 2),
     manufacturer_id |-> UnwrapOr(b.manufacturer_id, 829)]

LowerManufacturerID_from(value) ==
    [part_num |-> AsU8(Shr(BitAnd(Shl(15, 12), value), 12)),
     manufacturer_id |-> BitAnd(value, 4095)]

UpperManufacturerIDBuilder_build(b) ==
    [version |-> UnwrapOr(b.version, 2), part_num |-> UnwrapOr(b.part_num, 0)]

UpperManufacturerID_from(value) ==
    [version |-> AsU8(Shr(BitAnd(Shl(15, 12), value), 12)),
     part_num |-> BitAnd(value, 4095)]

\* The Register trait's provided methods: the wire frames of a register
\* access with the value little-endian, and the decoding of a reply.
write_value(address, value) ==
    <<BitOr(address, 64), value % 256, Shr(value, 8) % 256>>

register_read_address(address) == address

fill_from_buffer(buffer) == from_le_bytes(<<buffer[2], buffer[3]>>)

(***************************************************************************)
(* register/: further register codecs.  A u16 shift drops the bits shifted  *)
(* out of the 16-bit word; an i8 is carried on the wire as its              *)
(* two's-complement byte.                                                    *)
(***************************************************************************)
ShlU16(v, k) == Shl(v, k) % 65536

i8_to_be_bytes(v) == <<(v + 256) % 256>>

i8_from_be_bytes(b) == IF b[1] >= 128 THEN b[1] - 256 ELSE b[1]

\* frequency_synthesis.rs
FrequencySynthesizerRegisterBuilder_validate(b) ==
    IF \E lock_threshold \in b.lock_threshold : lock_threshold > 3
    THEN "Invalid LOCK_THR. 0<=LOCK_THR<=3"
    ELSE IF \E frequency \in b.frequency : frequency >= Shl(1, 10)
    THEN "Invalid FREQ. 0<=FREQ<=(1 << 10)"
    ELSE ""

FrequencySynthesizerRegister_register_value(r) ==
    LET v1 == ShlU16(r.lock_threshold, 14)
        v2 == IF r.cal_done THEN BitOr(v1, Shl(1, 13)) ELSE v1
        v3 == IF r.cal_running THEN BitOr(v2, Shl(1, 12)) ELSE v2
        v4 == IF r.lock_length THEN BitOr(v3, Shl(1, 11)) ELSE v3
        v5 == IF r.lock_status THEN BitOr(v4, Shl(1, 10)) ELSE v4
    IN  BitOr(v5, r.frequency)

FrequencySynthesizerRegister_from(value) ==
    [lock_threshold |-> AsU8(Shr(BitAnd(Shl(3, 14), value), 14)),
     cal_done       |-> BitAnd(Shl(1, 13), value) # 0,
     cal_running    |-> BitAnd(Shl(1, 12), value) # 0,
     lock_length    |-> BitAnd(Shl(1, 11), value) # 0,
     lock_status    |-> BitAnd(Shl(1, 10), value) # 0,
     frequency      |-> BitAnd(value, 511)]

\* receive_control.rs
ReceiveControlRegister1Builder_validate(b) ==
    IF \E lna_cap_array \in b.lna_cap_array : lna_cap_array > 3
    THEN "Invalid LNA_CAP_ARRAY. 0<=LNA_CAP_ARRAY<=3"
    ELSE IF \E rxmix_tail \in b.rxmix_tail : rxmix_tail > 3
    THEN "Invalid RXMIX_TAIL. 0<=RXMIX_TAIL<=3"
    ELSE IF \E rxmix_vcm \in b.rxmix_vcm : rxmix_vcm > 3
    THEN "Invalid RXMIX_VCM. 0<=RXMIX_VCM<=3"
    ELSE IF \E rxmix_current \in b.rxmix_current : rxmix_current > 3
    THEN "Invalid RXMIX_CURRENT. 0<=RXMIX_CURRENT<=3"
    ELSE ""

ReceiveControlRegister1_register_value(r) ==
    LET v1 == IF r.rxbpf_locur THEN Shl(1, 13) ELSE 0
        v2 == IF r.rxbpf_midcur THEN BitOr(v1, Shl(1, 12)) ELSE v1
        v3 == IF r.low_lowgain THEN BitOr(v2, Shl(1, 11)) ELSE v2
        v4 == IF r.med_lowgain THEN BitOr(v3, Shl(1, 10)) ELSE v3
        v5 == IF r.high_hgm THEN BitOr(v4, Shl(1, 9)) ELSE v4
        v6 == IF r.med_hgm THEN BitOr(v5, Shl(1, 8)) ELSE v5
        v7 == BitOr(v6, ShlU16(r.lna_cap_array, 6))
        v8 == BitOr(v7, ShlU16(r.rxmix_tail, 4))
        v9 == BitOr(v8, ShlU16(r.rxmix_vcm, 2))
    IN  BitOr(v9, r.rxmix_current)

ReceiveControlRegister1_from(value) ==
    [rxbpf_locur   |-> BitAnd(Shl(1, 13), value) # 0,
     rxbpf_midcur  |-> BitAnd(Shl(1, 12), value) # 0,
     low_lowgain   |-> BitAnd(Shl(1, 11), value) # 0,
     med_lowgain   |-> BitAnd(Shl(1, 10), value) # 0,
     high_hgm      |-> BitAnd(Shl(1, 9), value) # 0,
     med_hgm       |-> BitAnd(Shl(1, 10), value) # 0,
     lna_cap_array |-> AsU8(Shr(BitAnd(Shl(3, 6), value), 6)),
     rxmix_tail    |-> AsU8(Shr(BitAnd(Shl(3, 4), value), 4)),
     rxmix_vcm     |-> AsU8(Shr(BitAnd(Shl(3, 2), value), 2)),
     rxmix_current |-> AsU8(BitAnd(3, value))]

\* fsm.rs
FiniteStateMachineConstantsBuilder_validate(b) == ""

FiniteStateMachineConstants_register_value(r) ==
    LET v1 == ShlU16(r.tc_rxchain_to_rx, 13)
        v2 == BitOr(v1, ShlU16(r.tc_switch_to_tx, 10))
        v3 == BitOr(v2, ShlU16(r.tc_paon_to_tx, 6))
        v4 == BitOr(v3, ShlU16(r.tc_txend_to_switch, 3))
    IN  BitOr(v4, r.tc_txend_to_paoff)

FiniteStateMachineConstants_from(value) ==
    [tc_rxchain_to_rx   |-> AsU8(Shr(BitAnd(Shl(7, 13), value), 13)),
     tc_switch_to_tx    |-> AsU8(Shr(BitAnd(Shl(7, 10), value), 10)),
     tc_paon_to_tx      |-> AsU8(Shr(BitAnd(Shl(15, 6), value), 6)),
     tc_txend_to_switch |-> AsU8(Shr(BitAnd(Shl(7, 3), value), 3)),
     tc_txend_to_paoff  |-> AsU8(BitAnd(7, value))]

\* io_configuration.rs
IOConfigurationRegister1Builder_validate(b) ==
    IF \E hssd_src \in b.hssd_src : hssd_src = 4 \/ hssd_src = 5 \/ hssd_src > 7
    THEN "Invalid HSSD_SRC. 0<=HSSD_SRC<=3 U 6<=HSSD_SRC<=7"
    ELSE IF \E sfd_mux \in b.sfd_mux : sfd_mux > 31
    THEN "Invalid SFDMUX. 0<=SFDMUX<=31"
    ELSE IF \E cca_mux \in b.cca_mux : cca_mux > 31
    THEN "Invalid CCAMUX. 0<=CCAMUX<=31"
    ELSE ""

IOConfigurationRegister1_register_value(r) ==
    LET v1 == ShlU16(r.hssd_src, 10)
        v2 == BitOr(v1, ShlU16(r.sfd_mux, 5))
    IN  BitOr(v2, r.cca_mux)

IOConfigurationRegister1_from(value) ==
    [hssd_src |-> AsU8(Shr(BitAnd(Shl(7, 10), value), 10)),
     sfd_mux  |-> AsU8(Shr(BitAnd(Shl(31, 5), value), 5)),
     cca_mux  |-> AsU8(BitAnd(31, value))]

\* rssi.rs: the builder has no validate function
RSSIRegister_register_value(r) == ShlU16(i8_to_be_bytes(r.cca_threshold)[1], 8)

RSSIRegister_from(value) ==
    [cca_threshold |-> i8_from_be_bytes(<<AsU8(Shr(BitAnd(value, 65280), 8))>>),
     rssi_value    |-> i8_from_be_bytes(<<AsU8(BitAnd(value, 255))>>)]

\* battery_monitor.rs
BatteryMonitorRegisterBuilder_validate(b) ==
    IF \E battmon_voltage \in b.battmon_voltage : battmon_voltage > 31
    THEN "Invalid BATTMON_VOLTAGE. 0<=BATTMON_VOLTAGE<=31"
    ELSE ""

BatteryMonitorRegister_register_value(r) ==
    LET v1 == IF r.battmon_en THEN Shl(1, 5) ELSE 0
    IN  BitOr(v1, r.battmon_voltage)

BatteryMonitorRegister_from(value) ==
    [battmon_ok      |-> BitAnd(Shl(1, 6), value) # 0,
     battmon_en      |-> BitAnd(Shl(1, 5), value) # 0,
     battmon_voltage |-> AsU8(BitAnd(value, 31))]

(***************************************************************************)
(* error.rs and the results of the controller's methods                     *)
(***************************************************************************)
NoStatus == [xosx_stable |-> FALSE, tx_underflow |-> FALSE, enc_busy |-> FALSE,
             tx_active |-> FALSE, lock |-> FALSE, rssi_valud |-> FALSE]

Result(kind) ==
    [kind |-> kind, status |-> NoStatus, value |-> <<>>, expected |-> 0,
     found |-> 0, msg |-> ""]

\* no call has returned yet
NoResult == Result("None")

\* Ok(RadioStatus) with the status decoded from a byte
Ok(byte) == [Result("Ok") EXCEPT !.status = RadioStatus(byte)]

\* Ok(v) for the methods that return data instead of a status
OkValue(v) == [Result("Ok") EXCEPT !.value = v]

InvalidBufferLenth(expected, found) ==
    [Result("InvalidBufferLenth") EXCEPT !.expected = expected, !.found = found]

InvalidConfiguration(msg) == [Result("InvalidConfiguration") EXCEPT !.msg = msg]

FailedConfiguration(msg) == [Result("FailedConfiguration") EXCEPT !.msg = msg]

GpioError == Result("GpioError")

SpiError == Result("SpiError")

\* the method did not return: a slice or index out of range aborted it
Panic == Result("Panic")

(***************************************************************************)
(* The collaborators: one log entry per call to one of them                 *)
(***************************************************************************)
\* spi.transfer_in_place(buffer): `out` goes out, on success `in` replaces it
Transfer(out, ok, in) ==
    [kind |-> "transfer", out |-> out, ok |-> ok, in |-> IF ok THEN in ELSE <<>>]

\* spi.write(buffer)
Write(out, ok) == [kind |-> "write", out |-> out, ok |-> ok, in |-> <<>>]

\* delay.delay_us(us)
Delay(us) == [kind |-> "delay", out |-> <<us>>, ok |-> TRUE, in |-> <<>>]

\* sfd.is_low() / fifo.is_high(): answer is "yes", "no" or "err"
Pin(line, answer) ==
    [kind |-> line, out |-> <<>>, ok |-> answer # "err",
     in |-> IF answer = "yes" THEN <<1>> ELSE IF answer = "no" THEN <<0>> ELSE <<>>]

IsSpi(e) == e.kind \in {"transfer", "write"}

\* the transport calls of a log, in order
SpiCalls(log) == SelectSeq(log, IsSpi)

REGISTER_WRITE_DELAY_US == 100

RAM_WRITE_DELAY_US == 100

(***************************************************************************)
(* Inputs and answers of the collaborators                                  *)
(***************************************************************************)
\* status bytes the chip answers with
StatusBytes == {0, 64, 70}

\* the status byte of a reply the caller drops without looking at it
DroppedStatus == 64

DataSeeds == {1, 200}

\* payload lengths around the multiples of the 128-byte chunk
DataLens == {n \in 0..MaxDataLen : n % 128 \in {0, 1, 2, 127}}

\* buffer lengths around the sector lengths 2, 8, 16 and 128 and the limit 129
BufLens == {n \in 0..MaxBufLen : n <= 3 \/ n \in {7, 8, 9, 15, 16, 17} \/ n >= 127}

\* a payload of `len` bytes, every window of which is different
Bytes(len, seed) == [i \in 1..len |-> (seed + 7 * (i - 1)) % 256]

U16Values == {0, 4660, 42767, 65535}

\* what a register read answers when the register was written with v:
\* v itself, v with a reserved high bit flipped, v with bit 0 flipped
RegisterReplies(v) ==
    {v, (v + 16384) % 65536, IF v % 2 = 0 THEN v + 1 ELSE v - 1}

\* what a RAM read answers when the sector holds p: p, or p with one byte off
RamReplies(p) ==
    IF p = <<>> THEN {p}
    ELSE {p, [p EXCEPT ![1] = (p[1] + 1) % 256],
             [p EXCEPT ![Len(p)] = (p[Len(p)] + 255) % 256]}

PreambleLengths == {0, 2, 15, 16}

ConfigurationValues ==
    [pan_coordinator   : BOOLEAN,
     address_decoding  : BOOLEAN,
     enable_crc        : BOOLEAN,
     auto_acknowledge  : BOOLEAN,
     preamble_length   : PreambleLengths,
     sync_word         : {<<167, 15>>, <<18, 52>>},
     short_address     : {<<18, 52>>, <<171, 205>>},
     pan_identifier    : {<<18, 52>>, <<34, 17>>},
     ieee_address      : {<<18, 52, 86, 120, 154, 188, 222, 240>>},
     tx_encryption_key : {Zeros(16), Bytes(16, 17)},
     rx_decryption_key : {Zeros(16)}]

\* config.rs: the defaults of the Configuration builder
DefaultConfiguration ==
    [pan_coordinator   |-> FALSE,
     address_decoding  |-> TRUE,
     enable_crc        |-> TRUE,
     auto_acknowledge  |-> FALSE,
     preamble_length   |-> 2,
     sync_word         |-> <<167, 15>>,
     short_address     |-> <<18, 52>>,
     pan_identifier    |-> <<18, 52>>,
     ieee_address      |-> <<18, 52, 86, 120, 154, 188, 222, 240>>,
     tx_encryption_key |-> Zeros(16),
     rx_decryption_key |-> Zeros(16)]

\* the modem settings of a configuration, and the values it stores
ModemSettings(c) ==
    <<c.pan_coordinator, c.address_decoding, c.enable_crc, c.auto_acknowledge,
      c.preamble_length>>

StoredValues(c) ==
    <<c.sync_word, c.short_address, c.pan_identifier, c.ieee_address,
      c.tx_encryption_key, c.rx_decryption_key>>

\* the configurations handed to configure: every modem setting with the
\* default values, and every choice of values with the default modem settings
Configurations ==
    {c \in ConfigurationValues :
        \/ ModemSettings(c) = ModemSettings(DefaultConfiguration)
        \/ StoredValues(c) = StoredValues(DefaultConfiguration)}

\* the call in progress, or the last one: the method and its arguments
Call(name) ==
    [name |-> name, data |-> <<>>, cca |-> FALSE, n |-> 0, ram |-> "",
     value |-> 0, key_0 |-> FALSE, config |-> DefaultConfiguration]

\* the local variables of a method that is under way
NoLocal == [step |-> 0, start |-> 0, status |-> 0, polls |-> 0]

(***************************************************************************)
(* lib.rs: the methods other methods call.  Each yields the log entries it  *)
(* adds and its result; the collaborator's answers are parameters.          *)
(***************************************************************************)
\* the body shared by all strobe methods (status, xosc_on, flush_tx_fifo, ...)
strobe(s, ok, st) ==
    [io  |-> <<Transfer(<<opcode(s)>>, ok, <<st>>)>>,
     ret |-> IF ok THEN Ok(st) ELSE SpiError]

write_register(address, value, ok, st) ==
    [io  |-> <<Transfer(write_value(address, value), ok, <<st, 0, 0>>)>>,
     ret |-> IF ok THEN Ok(st) ELSE SpiError]

\* `filled` is the 16-bit value the register is filled from, when the read succeeds
read_register(address, ok, st, reply) ==
    LET in == <<st>> \o to_le_bytes(reply) IN
    [io     |-> <<Transfer(<<register_read_address(address), 0, 0>>, ok, in)>>,
     ret    |-> IF ok THEN Ok(st) ELSE SpiError,
     filled |-> IF ok THEN {fill_from_buffer(in)} ELSE {}]

write_ram(ram, data, ok, st) ==
    IF Len(data) # length(ram)
    THEN [io |-> <<>>, ret |-> InvalidBufferLenth(length(ram), Len(data))]
    ELSE LET address == write_address(ram)
             buffer == <<address[1], address[2]>> \o data
         IN  [io  |-> <<Transfer(buffer, ok, <<st>> \o Zeros(Len(buffer) - 1))>>,
              ret |-> IF ok THEN Ok(st) ELSE SpiError]

\* `buffer` is the caller's buffer afterwards; it starts zeroed in every caller
read_ram(ram, n, ok, st, reply) ==
    IF n # length(ram)
    THEN [io |-> <<>>, ret |-> InvalidBufferLenth(length(ram), n), buffer |-> Zeros(n)]
    ELSE LET address == read_address(ram)
             write_buffer == <<address[1], address[2]>> \o Zeros(n)
             in == <<st, 0>> \o reply
         IN  [io     |-> <<Transfer(write_buffer, ok, in)>>,
              ret    |-> IF ok THEN Ok(st) ELSE SpiError,
              buffer |-> IF ok THEN Slice(in, 2, Len(in)) ELSE Zeros(n)]

\* r1?; r2: the second call is made only when the first returned Ok
Try(r1, r2) ==
    IF r1.ret.kind = "Ok"
    THEN [io |-> r1.io \o r2.io, ret |-> r2.ret]
    ELSE [io |-> r1.io, ret |-> r1.ret]

\* which of a method's transport calls fails: 0 for none, k for the k-th
FailPoints(n) == 0..n

(***************************************************************************)
(* The pure functions applied on their own: one value run through a         *)
(* builder's build, register_value and From<u16>, a status byte decoded, a  *)
(* strobe's opcode or a RAM sector's addresses looked up.                   *)
(***************************************************************************)

\* the #[builder(default = ...)] of each field of the register structs
FieldDefaults ==
    [FrequencySynthesizerRegister |->
        [lock_threshold |-> 1, cal_done |-> FALSE, cal_running |-> FALSE,
         lock_length |-> FALSE, lock_status |-> FALSE, frequency |-> 357],
     ReceiveControlRegister1 |->
        [rxbpf_locur |-> TRUE, rxbpf_midcur |-> FALSE, low_lowgain |-> TRUE,
         med_lowgain |-> FALSE, high_hgm |-> TRUE, med_hgm |-> FALSE,
         lna_cap_array |-> 1, rxmix_tail |-> 1, rxmix_vcm |-> 1, rxmix_current |-> 2],
     FiniteStateMachineConstants |->
        [tc_rxchain_to_rx |-> 3, tc_switch_to_tx |-> 6, tc_paon_to_tx |-> 10,
         tc_txend_to_switch |-> 2, tc_txend_to_paoff |-> 4],
     IOConfigurationRegister1 |-> [hssd_src |-> 0, sfd_mux |-> 0, cca_mux |-> 0],
     RSSIRegister |-> [cca_threshold |-> -32, rssi_value |-> -128],
     BatteryMonitorRegister |->
        [battmon_ok |-> TRUE, battmon_en |-> FALSE, battmon_voltage |-> 0]]

\* XBuilder::default(): no field set
BuilderDefault(type) ==
    IF type = "ModemControlRegister0" THEN ModemControlRegister0Builder_default
    ELSE [f \in DOMAIN FieldDefaults[type] |-> {}]

\* XBuilder::validate: "" stands for Ok(()), any other string is the Err message
Validate(type, b) ==
    CASE type = "ModemControlRegister0" -> ModemControlRegister0Builder_validate(b)
      [] type = "FrequencySynthesizerRegister" -> FrequencySynthesizerRegisterBuilder_validate(b)
      [] type = "ReceiveControlRegister1" -> ReceiveControlRegister1Builder_validate(b)
      [] type = "FiniteStateMachineConstants" -> FiniteStateMachineConstantsBuilder_validate(b)
      [] type = "IOConfigurationRegister1" -> IOConfigurationRegister1Builder_validate(b)
      [] type = "RSSIRegister" -> ""
      [] type = "BatteryMonitorRegister" -> BatteryMonitorRegisterBuilder_validate(b)

\* XBuilder::build: validate first, the Err being [error |-> message]; then
\* the unset fields take their defaults
Build(type, b) ==
    IF Validate(type, b) # "" THEN [error |-> Validate(type, b)]
    ELSE IF type = "ModemControlRegister0" THEN ModemControlRegister0Builder_build(b)
    ELSE [f \in DOMAIN b |-> UnwrapOr(b[f], FieldDefaults[type][f])]

\* X::register_value
RegisterValue(type, r) ==
    CASE type = "ModemControlRegister0" -> ModemControlRegister0_register_value(r)
      [] type = "FrequencySynthesizerRegister" -> FrequencySynthesizerRegister_register_value(r)
      [] type = "ReceiveControlRegister1" -> ReceiveControlRegister1_register_value(r)
      [] type = "FiniteStateMachineConstants" -> FiniteStateMachineConstants_register_value(r)
      [] type = "IOConfigurationRegister1" -> IOConfigurationRegister1_register_value(r)
      [] type = "RSSIRegister" -> RSSIRegister_register_value(r)
      [] type = "BatteryMonitorRegister" -> BatteryMonitorRegister_register_value(r)

\* X::from(u16)
From(type, value) ==
    CASE type = "ModemControlRegister0" -> ModemControlRegister0_from(value)
      [] type = "FrequencySynthesizerRegister" -> FrequencySynthesizerRegister_from(value)
      [] type = "ReceiveControlRegister1" -> ReceiveControlRegister1_from(value)
      [] type = "FiniteStateMachineConstants" -> FiniteStateMachineConstants_from(value)
      [] type = "IOConfigurationRegister1" -> IOConfigurationRegister1_from(value)
      [] type = "RSSIRegister" -> RSSIRegister_from(value)
      [] type = "BatteryMonitorRegister" -> BatteryMonitorRegister_from(value)

\* the values a caller may set each field of a builder to
FieldValues ==
    [ModemControlRegister0 |->
        [reserved_frame_mode |-> BOOLEAN, pan_coordinator |-> BOOLEAN,
         adr_decode |-> BOOLEAN, cca_hyst |-> 0..8 \cup {255},
         cca_mode |-> 0..4 \cup {255}, auto_crc |-> BOOLEAN,
         auto_ack |-> BOOLEAN, preamble_length |-> 0..16 \cup {255}],
     FrequencySynthesizerRegister |->
        [lock_threshold |-> 0..4 \cup {255}, cal_done |-> BOOLEAN,
         cal_running |-> BOOLEAN, lock_length |-> BOOLEAN,
         lock_status |-> BOOLEAN,
         frequency |-> {0, 1, 32, 271, 357, 511, 512, 1023, 1024, 65535}],
     ReceiveControlRegister1 |->
        [rxbpf_locur |-> BOOLEAN, rxbpf_midcur |-> BOOLEAN,
         low_lowgain |-> BOOLEAN, med_lowgain |-> BOOLEAN,
         high_hgm |-> BOOLEAN, med_hgm |-> BOOLEAN,
         lna_cap_array |-> 0..4 \cup {255}, rxmix_tail |-> 0..4 \cup {255},
         rxmix_vcm |-> 0..4 \cup {255}, rxmix_current |-> 0..4 \cup {255}],
     FiniteStateMachineConstants |->
        [tc_rxchain_to_rx |-> 0..8 \cup {255}, tc_switch_to_tx |-> 0..8 \cup {255},
         tc_paon_to_tx |-> 0..16 \cup {255}, tc_txend_to_switch |-> 0..8 \cup {255},
         tc_txend_to_paoff |-> 0..8 \cup {255}],
     IOConfigurationRegister1 |->
        [hssd_src |-> 0..8 \cup {255}, sfd_mux |-> 0..32 \cup {255},
         cca_mux |-> 0..32 \cup {255}],
     RSSIRegister |->
        [cca_threshold |-> {-128, -32, -22, -1, 0, 18, 127},
         rssi_value |-> {-128, -108, -1, 0, 127}],
     BatteryMonitorRegister |->
        [battmon_ok |-> BOOLEAN, battmon_en |-> BOOLEAN,
         battmon_voltage |-> 0..32 \cup {255}]]

\* XBuilder::default().field(value): one field set, the others left unset
Builders(type) ==
    UNION {{[BuilderDefault(type) EXCEPT ![f] = {v}] : v \in FieldValues[type][f]} :
           f \in DOMAIN FieldValues[type]}

\* a value and how far it has been taken: `register` is what build gave,
\* `wire` what register_value or opcode gave, `decoded` what from gave
Codec(type, arg) ==
    [type |-> type, step |-> "new", arg |-> arg, error |-> "",
     register |-> {}, wire |-> {}, decoded |-> {}]

\* no pure function is being applied on its own
NoCodec == Codec("", {})

(***************************************************************************)
(* The state after Radio::new                                               *)
(***************************************************************************)
Init ==
    /\ powered_up = FALSE
    /\ pc = "returned"
    /\ call = Call("new")
    /\ local = NoLocal
    /\ io = <<>>
    /\ ret = NoResult
    /\ codec = NoCodec

\* a method runs from start to return in one step
Returns(c, r, pu) ==
    /\ call' = c
    /\ io' = r.io
    /\ ret' = r.ret
    /\ powered_up' = pu
    /\ pc' = "returned"
    /\ UNCHANGED codec
    /\ local' = NoLocal

\* the caller has looked at the result and is about to make its next call
next_call ==
    /\ pc = "returned"
    /\ pc' = "ready"
    /\ UNCHANGED codec
    /\ call' = Call("")
    /\ io' = <<>>
    /\ ret' = NoResult
    /\ local' = NoLocal
    /\ UNCHANGED powered_up

(***************************************************************************)
(* Power sequencing                                                         *)
(***************************************************************************)
\* faulty variant: marks the controller powered even when the strobe failed
power_up_mut ==
    /\ pc = "ready"
    /\ \E ok \in BOOLEAN, st \in StatusBytes :
        Returns(Call("power_up"), strobe("XOSCOn", ok, st), TRUE)

power_up ==
    /\ pc = "ready"
    /\ \E ok \in BOOLEAN, st \in StatusBytes :
        Returns(Call("power_up"), strobe("XOSCOn", ok, st),
                IF ok THEN TRUE ELSE powered_up)

power_down ==
    /\ pc = "ready"
    /\ \E fail \in FailPoints(2), st \in StatusBytes :
        LET r1 == [io  |-> <<Write(<<opcode("DisableRxTx")>>, fail # 1)>>,
                   ret |-> IF fail # 1 THEN Ok(DroppedStatus) ELSE SpiError]
            r  == Try(r1, strobe("XOSCOff", fail # 2, st))
        IN  Returns(Call("power_down"), r,
                    IF r.ret.kind = "Ok" THEN FALSE ELSE powered_up)

reset ==
    /\ pc = "ready"
    /\ \E ok \in BOOLEAN, st \in StatusBytes :
        LET register == MainControlRegisterBuilder_build(
                            [reset_n |-> {FALSE}, enc_reset_n |-> {}, demod_reset_n |-> {},
                             mod_reset_n |-> {}, fs_reset_n |-> {}, xosc16m_bypass |-> {}])
        IN  Returns(Call("reset"),
                    write_register(RegisterAddress.MAIN,
                                   MainControlRegister_register_value(register), ok, st),
                    powered_up)

(***************************************************************************)
(* The strobe methods: one transfer of the opcode, the reply is the status  *)
(***************************************************************************)
StrobeMethods ==
    [status |-> "ReadStatus", xosc_on |-> "XOSCOn",
     calibrate_tx |-> "CalibrateFrequency", start_receiving |-> "EnableRx",
     enable_rx |-> "EnableRx", enable_tx |-> "EnableTx",
     cca_enable_tx |-> "EnableTxCCA", flush_rx_fifo |-> "FlushRx",
     flush_tx_fifo |-> "FlushTx", acknowledge_cleared |-> "Ack",
     acknowledge_set |-> "AckPend", enable_decryption |-> "RxDecryption",
     enable_encryption |-> "TxEncryption", aes_encryption |-> "AesEncryption"]

strobe_method ==
    /\ pc = "ready"
    /\ \E name \in DOMAIN StrobeMethods, ok \in BOOLEAN, st \in StatusBytes :
        Returns(Call(name), strobe(StrobeMethods[name], ok, st), powered_up)

data_ready ==
    /\ pc = "ready"
    /\ \E answer \in {"yes", "no", "err"} :
        Returns(Call("data_ready"),
                [io  |-> <<Pin("fifo", answer)>>,
                 ret |-> IF answer = "err" THEN GpioError
                         ELSE OkValue(<<IF answer = "yes" THEN 1 ELSE 0>>)],
                powered_up)

(***************************************************************************)
(* Register methods                                                         *)
(***************************************************************************)
set_sync_word ==
    /\ pc = "ready"
    /\ \E value \in U16Values, ok \in BOOLEAN, st \in StatusBytes :
        LET register == SyncWordRegisterBuilder_build([sync_word |-> {value}])
        IN  Returns([Call("set_sync_word") EXCEPT !.value = value],
                    write_register(RegisterAddress.SYNCWORD,
                                   SyncWordRegister_register_value(register), ok, st),
                    powered_up)

\* values a read of security control register 0 answers
SecurityReplies == {964, 0, 65535, 807}

\* faulty variant: the field is set in a fresh register, not in the one read
KeySelect_mut(field, key_0, fail, st, reply) ==
    LET r1 == read_register(RegisterAddress.SECCTRL0, fail # 1, DroppedStatus, reply)
        register == SecurityControlRegister0_from(0)
        changed == [register EXCEPT ![field] = key_0]
    IN  Try(r1, write_register(RegisterAddress.SECCTRL0,
                               SecurityControlRegister0_register_value(changed),
                               fail # 2, st))

\* build the default register, fill it from security control register 0,
\* set one select field, write it back
KeySelect(field, key_0, fail, st, reply) ==
    LET r1 == read_register(RegisterAddress.SECCTRL0, fail # 1, DroppedStatus, reply)
        built == SecurityControlRegister0Builder_build(SecurityControlRegister0Builder_default)
        register == IF r1.filled = {} THEN built
                    ELSE SecurityControlRegister0_from(UnwrapOr(r1.filled, 0))
        changed == [register EXCEPT ![field] = key_0]
    IN  Try(r1, write_register(RegisterAddress.SECCTRL0,
                               SecurityControlRegister0_register_value(changed),
                               fail # 2, st))

set_standalone_key ==
    /\ pc = "ready"
    /\ \E key_0 \in BOOLEAN, fail \in FailPoints(2), st \in StatusBytes,
       reply \in SecurityReplies :
        Returns([Call("set_standalone_key") EXCEPT !.key_0 = key_0],
                KeySelect("sec_sa_key_sel", key_0, fail, st, reply), powered_up)

set_tx_key ==
    /\ pc = "ready"
    /\ \E key_0 \in BOOLEAN, fail \in FailPoints(2), st \in StatusBytes,
       reply \in SecurityReplies :
        Returns([Call("set_tx_key") EXCEPT !.key_0 = key_0],
                KeySelect("sec_tx_key_sel", key_0, fail, st, reply), powered_up)

set_rx_key ==
    /\ pc = "ready"
    /\ \E key_0 \in BOOLEAN, fail \in FailPoints(2), st \in StatusBytes,
       reply \in SecurityReplies :
        Returns([Call("set_rx_key") EXCEPT !.key_0 = key_0],
                KeySelect("sec_rx_key_sel", key_0, fail, st, reply), powered_up)

\* values a read of a manufacturer id register answers
ManufacturerReplies == {9021, 12288, 0}

NoUpperID == [version |-> {}, part_num |-> {}]

read_part_number ==
    /\ pc = "ready"
    /\ \E fail \in FailPoints(2), lo \in ManufacturerReplies, hi \in ManufacturerReplies :
        LET r1 == read_register(RegisterAddress.MANFIDL, fail # 1, DroppedStatus, lo)
            r2 == read_register(RegisterAddress.MANFIDH, fail # 2, DroppedStatus, hi)
            lower_16_register == LowerManufacturerID_from(UnwrapOr(r1.filled, 0))
            upper_16_register == UpperManufacturerID_from(UnwrapOr(r2.filled, 0))
            r == Try(r1, r2)
        IN  Returns(Call("read_part_number"),
                    [io  |-> r.io,
                     ret |-> IF r.ret.kind = "Ok"
                             THEN OkValue(<<BitOr(Shl(upper_16_register.part_num, 4) % 65536,
                                                  lower_16_register.part_num)>>)
                             ELSE r.ret],
                    powered_up)

read_manufacturer ==
    /\ pc = "ready"
    /\ \E ok \in BOOLEAN, reply \in ManufacturerReplies :
        LET r == read_register(RegisterAddress.MANFIDL, ok, DroppedStatus, reply)
            register == LowerManufacturerID_from(UnwrapOr(r.filled, 0))
        IN  Returns(Call("read_manufacturer"),
                    [io  |-> r.io,
                     ret |-> IF r.ret.kind = "Ok"
                             THEN OkValue(<<register.manufacturer_id>>) ELSE r.ret],
                    powered_up)

\* the result of read_register is dropped: a failed read leaves the register
\* at the builder's default and the method still returns Ok
version_number ==
    /\ pc = "ready"
    /\ \E ok \in BOOLEAN, reply \in ManufacturerReplies :
        LET r == read_register(RegisterAddress.MANFIDH, ok, DroppedStatus, reply)
            register == IF r.filled = {} THEN UpperManufacturerIDBuilder_build(NoUpperID)
                        ELSE UpperManufacturerID_from(UnwrapOr(r.filled, 0))
        IN  Returns(Call("version_number"),
                    [io |-> r.io, ret |-> OkValue(<<register.version>>)],
                    powered_up)

\* registers handed to the public write_register / read_register
AnyRegisters == {<<RegisterAddress.MAIN, 63488>>, <<RegisterAddress.SYNCWORD, 4660>>,
                 <<RegisterAddress.MDMCTRL0, 2786>>}

call_write_register ==
    /\ pc = "ready"
    /\ \E register \in AnyRegisters, ok \in BOOLEAN, st \in StatusBytes :
        Returns([Call("write_register") EXCEPT !.value = register[2]],
                write_register(register[1], register[2], ok, st), powered_up)

call_read_register ==
    /\ pc = "ready"
    /\ \E register \in AnyRegisters, ok \in BOOLEAN, st \in StatusBytes,
       reply \in U16Values :
        LET r == read_register(register[1], ok, st, reply)
        IN  Returns([Call("read_register") EXCEPT !.value = register[2]],
                    [io |-> r.io,
                     ret |-> IF ok THEN [r.ret EXCEPT !.value = <<UnwrapOr(r.filled, 0)>>]
                             ELSE r.ret],
                    powered_up)

(***************************************************************************)
(* RAM methods                                                              *)
(***************************************************************************)
\* write_ram and read_ram themselves, with a buffer of any length
call_write_ram ==
    /\ pc = "ready"
    /\ \E ram \in RamSectors, n \in BufLens, seed \in DataSeeds,
       ok \in BOOLEAN, st \in StatusBytes :
        Returns([Call("write_ram") EXCEPT !.ram = ram, !.data = Bytes(n, seed), !.n = n],
                write_ram(ram, Bytes(n, seed), ok, st), powered_up)

call_read_ram ==
    /\ pc = "ready"
    /\ \E ram \in RamSectors, n \in BufLens, seed \in DataSeeds,
       ok \in BOOLEAN, st \in StatusBytes :
        LET r == read_ram(ram, n, ok, st, Bytes(n, seed))
        IN  Returns([Call("read_ram") EXCEPT !.ram = ram, !.n = n],
                    [io |-> r.io, ret |-> [r.ret EXCEPT !.value = r.buffer]],
                    powered_up)

\* the methods that write a fixed-size array to their sector
RamSetters ==
    [set_key_0 |-> "Key0", set_key_1 |-> "Key1", set_ieee_address |-> "IEEEAddress",
     set_tx_nonce |-> "TxNonce", set_rx_nonce |-> "RxNonce", write_rx_fifo |-> "RxFifo"]

ram_setter ==
    /\ pc = "ready"
    /\ \E name \in DOMAIN RamSetters, seed \in DataSeeds, ok \in BOOLEAN, st \in StatusBytes :
        LET ram == RamSetters[name]
            data == Bytes(length(ram), seed)
        IN  Returns([Call(name) EXCEPT !.ram = ram, !.data = data],
                    write_ram(ram, data, ok, st), powered_up)

\* the methods that read their sector into a fixed-size array and return it
RamGetters ==
    [read_key_0 |-> "Key0", read_key_1 |-> "Key1", read_ieee_address |-> "IEEEAddress",
     read_tx_nonce |-> "TxNonce", read_rx_nonce |-> "RxNonce",
     read_rx_fifo |-> "RxFifo", read_tx_fifo |-> "TxFifo"]

\* read_ram(ram, &mut buffer)?; Ok(buffer)
ReadArray(ram, ok, reply) ==
    LET r == read_ram(ram, length(ram), ok, DroppedStatus, reply)
    IN  [io |-> r.io, ret |-> IF r.ret.kind = "Ok" THEN OkValue(r.buffer) ELSE r.ret]

ram_getter ==
    /\ pc = "ready"
    /\ \E name \in DOMAIN RamGetters, seed \in DataSeeds, ok \in BOOLEAN :
        LET ram == RamGetters[name]
        IN  Returns([Call(name) EXCEPT !.ram = ram],
                    ReadArray(ram, ok, Bytes(length(ram), seed)), powered_up)

\* the bytes a RAM write leaves in its sector: those after the two address bytes
Stored(w) == Slice(w.io[1].out, 2, Len(w.io[1].out))

\* faulty variant: the value goes out little-endian
set_short_address_mut(value, ok, st) ==
    write_ram("ShortAddress", to_le_bytes(value), ok, st)

set_short_address(value, ok, st) ==
    write_ram("ShortAddress", to_be_bytes(value), ok, st)

\* faulty variant: the bytes read are taken little-endian
read_short_address_mut(ok, reply) ==
    LET r == ReadArray("ShortAddress", ok, reply)
    IN  [io |-> r.io,
         ret |-> IF r.ret.kind = "Ok" THEN OkValue(<<from_le_bytes(r.ret.value)>>) ELSE r.ret]

\* Ok carries the u16 read
read_short_address(ok, reply) ==
    LET r == ReadArray("ShortAddress", ok, reply)
    IN  [io |-> r.io,
         ret |-> IF r.ret.kind = "Ok" THEN OkValue(<<from_be_bytes(r.ret.value)>>) ELSE r.ret]

set_pan_id(value, ok, st) ==
    write_ram("PanID", to_be_bytes(value), ok, st)

read_pan_id(ok, reply) ==
    LET r == ReadArray("PanID", ok, reply)
    IN  [io |-> r.io,
         ret |-> IF r.ret.kind = "Ok" THEN OkValue(<<from_be_bytes(r.ret.value)>>) ELSE r.ret]

call_set_short_address ==
    /\ pc = "ready"
    /\ \E value \in U16Values, ok \in BOOLEAN, st \in StatusBytes :
        Returns([Call("set_short_address") EXCEPT !.value = value],
                set_short_address(value, ok, st), powered_up)

\* the sector was last set with set_short_address(value); call.value records it
call_read_short_address ==
    /\ pc = "ready"
    /\ \E value \in U16Values, ok \in BOOLEAN :
        \E reply \in RamReplies(Stored(set_short_address(value, TRUE, DroppedStatus))) :
            Returns([Call("read_short_address") EXCEPT !.value = value],
                    read_short_address(ok, reply), powered_up)

call_set_pan_id ==
    /\ pc = "ready"
    /\ \E value \in U16Values, ok \in BOOLEAN, st \in StatusBytes :
        Returns([Call("set_pan_id") EXCEPT !.value = value],
                set_pan_id(value, ok, st), powered_up)

\* the sector was last set with set_pan_id(value); call.value records it
call_read_pan_id ==
    /\ pc = "ready"
    /\ \E value \in U16Values, ok \in BOOLEAN :
        \E reply \in RamReplies(Stored(set_pan_id(value, TRUE, DroppedStatus))) :
            Returns([Call("read_pan_id") EXCEPT !.value = value],
                    read_pan_id(ok, reply), powered_up)

encrypt ==
    /\ pc = "ready"
    /\ \E seed \in DataSeeds, out \in DataSeeds, fail \in FailPoints(3) :
        LET data == Bytes(16, seed)
            r == Try(Try(write_ram("EncryptionBuffer", data, fail # 1, DroppedStatus),
                         strobe("AesEncryption", fail # 2, DroppedStatus)),
                     ReadArray("EncryptionBuffer", fail # 3, Bytes(16, out)))
        IN  Returns([Call("encrypt") EXCEPT !.data = data], r, powered_up)

(***************************************************************************)
(* Frames                                                                   *)
(***************************************************************************)
\* the strobe that starts the transmission
\* faulty variant: the two TX strobes are swapped
TxStrobe_mut(cca) == IF cca THEN opcode("EnableTx") ELSE opcode("EnableTxCCA")

\* STXONCCA when the channel is to be assessed first, STXON otherwise
TxStrobe(cca) == IF cca THEN opcode("EnableTxCCA") ELSE opcode("EnableTx")

send_frame ==
    /\ pc = "ready"
    /\ \E n \in DataLens, seed \in DataSeeds, cca \in BOOLEAN,
       fail \in FailPoints(3), st \in StatusBytes :
        LET data == Bytes(n, seed)
            r1 == strobe("FlushTx", fail # 1, DroppedStatus)
            r2 == IF Len(data) > 128
                  THEN [io |-> <<>>, ret |-> InvalidBufferLenth(128, Len(data))]
                  ELSE LET buffer == <<opcode("TxFifo")>> \o data
                       IN  [io  |-> <<Transfer(buffer, fail # 2,
                                               <<DroppedStatus>> \o Zeros(Len(data)))>>,
                            ret |-> IF fail # 2 THEN Ok(DroppedStatus) ELSE SpiError]
            r3 == [io  |-> <<Transfer(<<TxStrobe(cca)>>, fail # 3, <<st>>)>>,
                   ret |-> IF fail # 3 THEN Ok(st) ELSE SpiError]
        IN  Returns([Call("send_frame") EXCEPT !.data = data, !.cca = cca, !.n = n],
                    Try(Try(r1, r2), r3), powered_up)

\* a slice or index out of range aborts the method and the program with it
Panics(c, entries) ==
    /\ call' = c
    /\ io' = entries
    /\ ret' = Panic
    /\ pc' = "panicked"
    /\ UNCHANGED codec
    /\ local' = NoLocal
    /\ UNCHANGED powered_up

\* `n` is the length of the caller's buffer; Ok carries the status the method
\* returns, and `value` the caller's buffer afterwards
receive ==
    /\ pc = "ready"
    /\ \E n \in BufLens, seed \in DataSeeds, ok \in BOOLEAN, st \in StatusBytes :
        LET c == [Call("receive") EXCEPT !.n = n]
            data_len == Min(129, n)
            read_buffer == <<opcode("RxFifo")>> \o Zeros(128)
        IN  IF data_len + 1 > Len(read_buffer)
            THEN Panics(c, <<>>)
            ELSE LET out == Slice(read_buffer, 0, data_len + 1)
                     in == <<st>> \o Bytes(data_len, seed)
                     entries == <<Transfer(out, ok, in)>>
                     buffer == Slice(in, 1, data_len + 1)
                 IN  IF ~ok THEN Returns(c, [io |-> entries, ret |-> SpiError], powered_up)
                     ELSE IF n # Len(buffer) \/ n = 0 THEN Panics(c, entries)
                     ELSE Returns(c, [io |-> entries,
                                      ret |-> [Ok(buffer[1]) EXCEPT !.value = buffer]],
                                  powered_up)

\* the method goes on at position `at`
Continues(entries, at, l) ==
    /\ io' = io \o entries
    /\ pc' = at
    /\ UNCHANGED codec
    /\ local' = l
    /\ ret' = NoResult
    /\ UNCHANGED <<call, powered_up>>

\* the method returns `result` from the middle of its body
ReturnsFrom(entries, result) ==
    /\ io' = io \o entries
    /\ pc' = "returned"
    /\ UNCHANGED codec
    /\ ret' = result
    /\ local' = NoLocal
    /\ UNCHANGED <<call, powered_up>>

\* send: flush the TX FIFO, then enter the loop over the full chunks
send ==
    /\ pc = "ready"
    /\ \E n \in DataLens, seed \in DataSeeds, cca \in BOOLEAN, ok \in BOOLEAN :
        LET r == strobe("FlushTx", ok, DroppedStatus)
        IN  /\ call' = [Call("send") EXCEPT !.data = Bytes(n, seed), !.cca = cca, !.n = n]
            /\ io' = r.io
            /\ pc' = IF ok THEN "send_loop" ELSE "returned"
            /\ UNCHANGED codec
            /\ ret' = IF ok THEN NoResult ELSE r.ret
            /\ local' = NoLocal
            /\ UNCHANGED powered_up

\* one pass of `for start in 0..(data.len()/128)`: the chunk, then the TX strobe
send_chunk ==
    /\ pc = "send_loop"
    /\ local.start < Len(call.data) \div 128
    /\ \E fail \in FailPoints(2) :
        LET start == local.start
            data_buffer == <<opcode("TxFifo")>>
                           \o Slice(call.data, start * 128, (start + 1) * 128)
            buffer == <<TxStrobe(call.cca)>>
            entries == IF fail = 1 THEN <<Write(data_buffer, FALSE)>>
                       ELSE <<Write(data_buffer, TRUE), Write(buffer, fail # 2)>>
        IN  IF fail = 0 THEN Continues(entries, "send_wait", local)
            ELSE ReturnsFrom(entries, SpiError)

\* faulty variant: the loop runs while the line is not low
send_wait_mut ==
    /\ pc = "send_wait"
    /\ \E answer \in {"yes", "no", "err"} :
        /\ answer = "no" => local.polls < MaxPoll
        /\ IF answer = "err" THEN ReturnsFrom(<<Pin("sfd", answer)>>, GpioError)
           ELSE IF answer = "no"
           THEN Continues(<<Pin("sfd", answer), Delay(100)>>, "send_wait",
                          [local EXCEPT !.polls = @ + 1])
           ELSE Continues(<<Pin("sfd", answer)>>, "send_loop",
                          [local EXCEPT !.start = @ + 1, !.polls = 0])

\* `while self.sfd.is_low()? { delay.delay_us(100) }`
send_wait ==
    /\ pc = "send_wait"
    /\ \E answer \in {"yes", "no", "err"} :
        /\ answer = "yes" => local.polls < MaxPoll
        /\ IF answer = "err" THEN ReturnsFrom(<<Pin("sfd", answer)>>, GpioError)
           ELSE IF answer = "yes"
           THEN Continues(<<Pin("sfd", answer), Delay(100)>>, "send_wait",
                          [local EXCEPT !.polls = @ + 1])
           ELSE Continues(<<Pin("sfd", answer)>>, "send_loop",
                          [local EXCEPT !.start = @ + 1, !.polls = 0])

\* faulty variant: the final strobe is STXON whatever cca says
send_final_mut ==
    /\ pc = "send_loop"
    /\ local.start >= Len(call.data) \div 128
    /\ LET final_frame == Slice(call.data, Len(call.data) \div 128, Len(call.data))
       IN  IF 1 + Len(final_frame) > 129
           THEN /\ io' = io
                /\ ret' = Panic
                /\ pc' = "panicked"
                /\ UNCHANGED codec
                /\ local' = NoLocal
                /\ UNCHANGED <<call, powered_up>>
           ELSE \E fail \in FailPoints(2), st \in StatusBytes :
                LET data_buffer == <<opcode("TxFifo")>> \o final_frame
                    entries == IF fail = 1 THEN <<Write(data_buffer, FALSE)>>
                               ELSE <<Write(data_buffer, TRUE),
                                      Transfer(<<opcode("EnableTx")>>, fail # 2, <<st>>)>>
                IN  ReturnsFrom(entries, IF fail = 0 THEN Ok(st) ELSE SpiError)

\* after the loop: the final frame and the TX strobe whose reply is returned
send_final ==
    /\ pc = "send_loop"
    /\ local.start >= Len(call.data) \div 128
    /\ LET final_frame == Slice(call.data, Len(call.data) \div 128, Len(call.data))
       IN  IF 1 + Len(final_frame) > 129
           THEN /\ io' = io
                /\ ret' = Panic
                /\ pc' = "panicked"
                /\ UNCHANGED codec
                /\ local' = NoLocal
                /\ UNCHANGED <<call, powered_up>>
           ELSE \E fail \in FailPoints(2), st \in StatusBytes :
                LET data_buffer == <<opcode("TxFifo")>> \o final_frame
                    entries == IF fail = 1 THEN <<Write(data_buffer, FALSE)>>
                               ELSE <<Write(data_buffer, TRUE),
                                      Transfer(<<TxStrobe(call.cca)>>, fail # 2, <<st>>)>>
                IN  ReturnsFrom(entries, IF fail = 0 THEN Ok(st) ELSE SpiError)

(***************************************************************************)
(* configure                                                                *)
(***************************************************************************)
\* the modem control builder configure fills from the configuration
ConfigureModemBuilder(config) ==
    [ModemControlRegister0Builder_default EXCEPT
        !.pan_coordinator = {config.pan_coordinator},
        !.adr_decode = {config.address_decoding},
        !.auto_crc = {config.enable_crc},
        !.auto_ack = {config.auto_acknowledge},
        !.preamble_length = {config.preamble_length}]

ConfigureSyncWord(config) ==
    SyncWordRegisterBuilder_build([sync_word |-> {from_le_bytes(config.sync_word)}])

ConfigureFailure ==
    <<"Configuration of Modem Failed",
      "Configuration of Sync Word Failed",
      "Configuration of Short Address Failed",
      "Configuration of Pan ID Failed",
      "Configuration of IEEE Address Failed",
      "Configuration of Tx Encryption Key Failed",
      "Configuration of Rx Decryption Key Failed">>

\* the write of step k
ConfigureSet(config, k, ok) ==
    CASE k = 1 -> write_register(RegisterAddress.MDMCTRL0,
                      ModemControlRegister0_register_value(
                          ModemControlRegister0Builder_build(ConfigureModemBuilder(config))),
                      ok, DroppedStatus)
      [] k = 2 -> write_register(RegisterAddress.SYNCWORD,
                      SyncWordRegister_register_value(ConfigureSyncWord(config)),
                      ok, DroppedStatus)
      [] k = 3 -> set_short_address(from_le_bytes(config.short_address), ok, DroppedStatus)
      [] k = 4 -> set_pan_id(from_le_bytes(config.pan_identifier), ok, DroppedStatus)
      [] k = 5 -> write_ram("IEEEAddress", config.ieee_address, ok, DroppedStatus)
      [] k = 6 -> write_ram("Key1", config.tx_encryption_key, ok, DroppedStatus)
      [] k = 7 -> write_ram("Key0", config.rx_decryption_key, ok, DroppedStatus)

\* the read-back of step k; `reply` is the 16-bit value or the bytes answered
ConfigureGet(k, ok, reply) ==
    CASE k = 1 -> read_register(RegisterAddress.MDMCTRL0, ok, DroppedStatus, reply)
      [] k = 2 -> read_register(RegisterAddress.SYNCWORD, ok, DroppedStatus, reply)
      [] k = 3 -> read_short_address(ok, reply)
      [] k = 4 -> read_pan_id(ok, reply)
      [] k = 5 -> ReadArray("IEEEAddress", ok, reply)
      [] k = 6 -> ReadArray("Key1", ok, reply)
      [] k = 7 -> ReadArray("Key0", ok, reply)

\* faulty variant: the sync word read back is not compared
ConfigureMismatch_mut(config, k, r) ==
    CASE k = 1 -> ModemControlRegister0_from(UnwrapOr(r.filled, 0))
                  # ModemControlRegister0Builder_build(ConfigureModemBuilder(config))
      [] k = 2 -> FALSE
      [] k = 3 -> to_le_bytes(r.ret.value[1]) # config.short_address
      [] k = 4 -> to_le_bytes(r.ret.value[1]) # config.pan_identifier
      [] k = 5 -> r.ret.value # config.ieee_address
      [] k = 6 -> r.ret.value # config.tx_encryption_key
      [] k = 7 -> r.ret.value # config.rx_decryption_key

\* does the value read back in step k (by the successful read r) differ
\* from the one configure intended?
ConfigureMismatch(config, k, r) ==
    CASE k = 1 -> ModemControlRegister0_from(UnwrapOr(r.filled, 0))
                  # ModemControlRegister0Builder_build(ConfigureModemBuilder(config))
      [] k = 2 -> SyncWordRegister_from(UnwrapOr(r.filled, 0)) # ConfigureSyncWord(config)
      [] k = 3 -> to_le_bytes(r.ret.value[1]) # config.short_address
      [] k = 4 -> to_le_bytes(r.ret.value[1]) # config.pan_identifier
      [] k = 5 -> r.ret.value # config.ieee_address
      [] k = 6 -> r.ret.value # config.tx_encryption_key
      [] k = 7 -> r.ret.value # config.rx_decryption_key

\* what the chip may answer to the read-back of step k
ConfigureReplies(config, k) ==
    LET out == ConfigureSet(config, k, TRUE).io[1].out
    IN  IF k <= 2 THEN RegisterReplies(from_le_bytes(<<out[2], out[3]>>))
        ELSE RamReplies(Slice(out, 2, Len(out)))

\* configure up to the first write: build and validate the modem control register
configure ==
    /\ pc = "ready"
    /\ \E config \in Configurations :
        LET e == ModemControlRegister0Builder_validate(ConfigureModemBuilder(config))
        IN  /\ call' = [Call("configure") EXCEPT !.config = config]
            /\ io' = <<>>
            /\ pc' = IF e = "" THEN "configure_write" ELSE "returned"
            /\ UNCHANGED codec
            /\ ret' = IF e = "" THEN NoResult ELSE InvalidConfiguration(e)
            /\ local' = [NoLocal EXCEPT !.step = IF e = "" THEN 1 ELSE 0]
            /\ UNCHANGED powered_up

\* step k: write the value, then wait for the chip to take it
configure_write ==
    /\ pc = "configure_write"
    /\ \E ok \in BOOLEAN :
        LET r == ConfigureSet(call.config, local.step, ok)
            us == IF local.step <= 2 THEN REGISTER_WRITE_DELAY_US ELSE RAM_WRITE_DELAY_US
        IN  IF r.ret.kind = "Ok"
            THEN Continues(r.io \o <<Delay(us)>>, "configure_read", local)
            ELSE ReturnsFrom(r.io, r.ret)

\* step k: read the value back and compare it with the intended one
configure_read ==
    /\ pc = "configure_read"
    /\ \E ok \in BOOLEAN, reply \in ConfigureReplies(call.config, local.step) :
        LET r == ConfigureGet(local.step, ok, reply)
        IN  IF r.ret.kind # "Ok" THEN ReturnsFrom(r.io, r.ret)
            ELSE IF ConfigureMismatch(call.config, local.step, r)
            THEN ReturnsFrom(r.io, FailedConfiguration(ConfigureFailure[local.step]))
            ELSE IF local.step < 7
            THEN Continues(r.io, "configure_write", [local EXCEPT !.step = @ + 1])
            ELSE Continues(r.io, "configure_xosc", local)

\* `let mut status = self.xosc_on()?`
configure_xosc_on ==
    /\ pc = "configure_xosc"
    /\ \E ok \in BOOLEAN, st \in StatusBytes :
        LET r == strobe("XOSCOn", ok, st)
        IN  IF ok THEN Continues(r.io, "configure_wait", [local EXCEPT !.status = st])
            ELSE ReturnsFrom(r.io, r.ret)

\* faulty variant: the wait gives up after one status read, whatever it shows
configure_poll_mut ==
    /\ pc = "configure_wait"
    /\ ~RadioStatus(local.status).xosx_stable
    /\ \E ok \in BOOLEAN, st \in StatusBytes :
        /\ ~RadioStatus(st).xosx_stable => local.polls < MaxPoll
        /\ LET r == strobe("ReadStatus", ok, st)
           IN  IF ok THEN Continues(r.io \o <<Delay(100)>>, "configure_wait",
                                    [local EXCEPT !.status = 64, !.polls = @ + 1])
               ELSE ReturnsFrom(r.io, r.ret)

\* one pass of `while !status.xosx_stable { status = self.status()?; delay }`;
\* the chip answers not-stable at most MaxPoll times in a row
configure_poll ==
    /\ pc = "configure_wait"
    /\ ~RadioStatus(local.status).xosx_stable
    /\ \E ok \in BOOLEAN, st \in StatusBytes :
        /\ ~RadioStatus(st).xosx_stable => local.polls < MaxPoll
        /\ LET r == strobe("ReadStatus", ok, st)
           IN  IF ok THEN Continues(r.io \o <<Delay(100)>>, "configure_wait",
                                    [local EXCEPT !.status = st, !.polls = @ + 1])
               ELSE ReturnsFrom(r.io, r.ret)

\* faulty variant: calibrates without waiting for the oscillator-stable flag
configure_calibrate_mut ==
    /\ pc = "configure_wait"
    /\ \E ok \in BOOLEAN, st \in StatusBytes :
        LET r == strobe("CalibrateFrequency", ok, st)
        IN  /\ powered_up' = TRUE
            /\ io' = io \o r.io
            /\ ret' = r.ret
            /\ pc' = "returned"
            /\ UNCHANGED codec
            /\ local' = NoLocal
            /\ UNCHANGED call

\* the loop is left: mark the controller powered, then `self.calibrate_tx()`
configure_calibrate ==
    /\ pc = "configure_wait"
    /\ RadioStatus(local.status).xosx_stable
    /\ \E ok \in BOOLEAN, st \in StatusBytes :
        LET r == strobe("CalibrateFrequency", ok, st)
        IN  /\ powered_up' = TRUE
            /\ io' = io \o r.io
            /\ ret' = r.ret
            /\ pc' = "returned"
            /\ UNCHANGED codec
            /\ local' = NoLocal
            /\ UNCHANGED call

Next ==
    \/ next_call
    \/ power_up
    \/ power_down
    \/ reset
    \/ strobe_method
    \/ data_ready
    \/ set_sync_word
    \/ set_standalone_key
    \/ set_tx_key
    \/ set_rx_key
    \/ read_part_number
    \/ read_manufacturer
    \/ version_number
    \/ call_write_register
    \/ call_read_register
    \/ call_write_ram
    \/ call_read_ram
    \/ ram_setter
    \/ ram_getter
    \/ call_set_short_address
    \/ call_read_short_address
    \/ call_set_pan_id
    \/ call_read_pan_id
    \/ encrypt
    \/ send_frame
    \/ receive
    \/ send
    \/ send_chunk
    \/ send_wait
    \/ send_final
    \/ configure
    \/ configure_write
    \/ configure_read
    \/ configure_xosc_on
    \/ configure_poll
    \/ configure_calibrate

Spec == Init /\ [][Next]_vars

\* configure runs to completion on the caller's thread: once the seven steps
\* are done, each statement of the oscillator wait is executed when the one
\* before it has finished, nothing preempts it
OscillatorWaitStep ==
    \/ configure_xosc_on
    \/ configure_poll
    \/ configure_calibrate

FairSpec == Init /\ [][Next]_vars /\ WF_vars(OscillatorWaitStep)

(***************************************************************************)
(* The pure functions applied on their own to the values a caller can make  *)
(***************************************************************************)
\* the 16-bit values handed to the decoders on their own: the values of the
\* low ten bits, each single bit, each value with a single bit clear, and the
\* values the repository's tests decode
U16Samples ==
    0..1023 \cup {Pow2(k) : k \in 0..15} \cup {65535 - Pow2(k) : k \in 0..15}
            \cup {0, 65535, 48399, 13737}

CodecInit ==
    /\ powered_up = FALSE
    /\ pc = "returned"
    /\ call = Call("new")
    /\ local = NoLocal
    /\ io = <<>>
    /\ ret = NoResult
    /\ \/ \E type \in DOMAIN FieldValues : \E b \in Builders(type) : codec = Codec(type, b)
       \/ \E value \in 0..255 : codec = Codec("RadioStatus", value)
       \/ \E s \in DOMAIN Strobe : codec = Codec("Strobe", s)
       \/ \E ram \in RamSectors : codec = Codec("Ram", ram)
       \/ \E type \in DOMAIN FieldValues, value \in U16Samples :
             codec = Codec("From", [register |-> type, value |-> value])

\* XBuilder::build: validate, then the unset fields take their defaults
apply_build ==
    /\ codec.type \in DOMAIN FieldValues
    /\ codec.step = "new"
    /\ LET r == Build(codec.type, codec.arg)
       IN  codec' = IF "error" \in DOMAIN r
                    THEN [codec EXCEPT !.step = "failed", !.error = r.error]
                    ELSE [codec EXCEPT !.step = "built", !.register = {r}]
    /\ UNCHANGED <<powered_up, pc, call, local, io, ret>>

\* X::register_value of the register that was built
apply_register_value ==
    /\ codec.type \in DOMAIN FieldValues
    /\ codec.step = "built"
    /\ \E r \in codec.register :
        codec' = [codec EXCEPT !.step = "encoded",
                               !.wire = {RegisterValue(codec.type, r)}]
    /\ UNCHANGED <<powered_up, pc, call, local, io, ret>>

\* X::from of the 16-bit value register_value gave
apply_from ==
    /\ codec.type \in DOMAIN FieldValues
    /\ codec.step = "encoded"
    /\ \E value \in codec.wire :
        codec' = [codec EXCEPT !.step = "decoded",
                               !.decoded = {From(codec.type, value)}]
    /\ UNCHANGED <<powered_up, pc, call, local, io, ret>>

\* X::from of a 16-bit value as read from the chip (`value.into()`)
apply_from_u16 ==
    /\ codec.type = "From"
    /\ codec.step = "new"
    /\ codec' = [codec EXCEPT !.step = "decoded",
                              !.decoded = {From(codec.arg.register, codec.arg.value)}]
    /\ UNCHANGED <<powered_up, pc, call, local, io, ret>>

\* RadioStatus::from of a byte
apply_status_from ==
    /\ codec.type = "RadioStatus"
    /\ codec.step = "new"
    /\ codec' = [codec EXCEPT !.step = "decoded", !.decoded = {RadioStatus(codec.arg)}]
    /\ UNCHANGED <<powered_up, pc, call, local, io, ret>>

\* Strobe::opcode
apply_opcode ==
    /\ codec.type = "Strobe"
    /\ codec.step = "new"
    /\ codec' = [codec EXCEPT !.step = "encoded", !.wire = {opcode(codec.arg)}]
    /\ UNCHANGED <<powered_up, pc, call, local, io, ret>>

\* Ram::read_address, kept in `wire`
apply_read_address ==
    /\ codec.type = "Ram"
    /\ codec.step = "new"
    /\ codec' = [codec EXCEPT !.step = "encoded", !.wire = {read_address(codec.arg)}]
    /\ UNCHANGED <<powered_up, pc, call, local, io, ret>>

\* Ram::write_address of the same sector, kept in `decoded`
apply_write_address ==
    /\ codec.type = "Ram"
    /\ codec.step = "encoded"
    /\ codec' = [codec EXCEPT !.step = "decoded", !.decoded = {write_address(codec.arg)}]
    /\ UNCHANGED <<powered_up, pc, call, local, io, ret>>

CodecNext ==
    \/ apply_build
    \/ apply_register_value
    \/ apply_from
    \/ apply_from_u16
    \/ apply_status_from
    \/ apply_opcode
    \/ apply_read_address
    \/ apply_write_address

CodecSpec == CodecInit /\ [][CodecNext]_vars

(***************************************************************************)
(* Properties                                                               *)
(***************************************************************************)
\* the transport calls of the call in progress
Spi == SpiCalls(io)

\* the method of the last call has returned to its caller
Returned(name) == call.name = name /\ pc = "returned"

\* a transport call that is a single strobe with the given opcode
IsStrobe(e, op) == e.out = <<op>>

\* a transport call that writes the TX FIFO (opcode 0x3E), and what it carries
IsTxFifoWrite(e) == IsSpi(e) /\ e.out[1] = 62

RECURSIVE Payloads(_)
Payloads(frames) ==
    IF frames = <<>> THEN <<>> ELSE Tail(Head(frames).out) \o Payloads(Tail(frames))

TxFifoFrames == SelectSeq(io, IsTxFifoWrite)

\* C1: send never aborts on an out-of-range access, and when it returns Ok the
\* payloads of its TX-FIFO write frames, concatenated in the order written, are
\* exactly the bytes of data: every frame but the last carries the next 128
\* bytes and the last one carries the tail from offset 128*floor(len/128).
C1_SendCarriesData ==
    call.name = "send" =>
        /\ pc # "panicked"
        /\ (pc = "returned" /\ ret.kind = "Ok") =>
              /\ Payloads(TxFifoFrames) = call.data
              /\ Len(TxFifoFrames) = Len(call.data) \div 128 + 1
              /\ \A i \in 1..Len(TxFifoFrames) :
                    Len(TxFifoFrames[i].out) - 1 =
                        IF i < Len(TxFifoFrames) THEN 128 ELSE Len(call.data) % 128

\* C2: receive returns the status decoded from the leading byte of the reply,
\* and the bytes after that byte are what the caller's buffer holds.
C2_ReceiveStatusFromLeadingByte ==
    (Returned("receive") /\ ret.kind = "Ok") =>
        /\ ret.status.xosx_stable = ((io[1].in[1] \div 64) % 2 = 1)
        /\ ret.status.tx_underflow = ((io[1].in[1] \div 32) % 2 = 1)
        /\ ret.status.enc_busy = ((io[1].in[1] \div 16) % 2 = 1)
        /\ ret.status.tx_active = ((io[1].in[1] \div 8) % 2 = 1)
        /\ ret.status.lock = ((io[1].in[1] \div 4) % 2 = 1)
        /\ ret.status.rssi_valud = ((io[1].in[1] \div 2) % 2 = 1)
        /\ ret.value = Tail(io[1].in)

\* C3: for every buffer length n, receive makes one transfer that reads
\* min(129, n) bytes after the opcode and returns without any out-of-range access.
C3_ReceiveAnyLength ==
    call.name = "receive" =>
        /\ pc # "panicked"
        /\ pc = "returned" =>
              /\ Len(io) = 1
              /\ io[1].kind = "transfer"
              /\ io[1].out[1] = 63
              /\ Len(io[1].out) = 1 + (IF call.n < 129 THEN call.n ELSE 129)

\* what a transport call of configure addresses: a register (6-bit address)
\* or a RAM location (9-bit address)
Target(e) ==
    IF e.out[1] < 128 THEN <<"register", e.out[1] % 64>>
    ELSE <<"ram", (e.out[1] % 128) + 128 * (e.out[2] \div 64)>>

\* modem control 0, sync word, short address, PAN id, IEEE address, key 1, key 0
StepTargets ==
    <<<<"register", 17>>, <<"register", 20>>, <<"ram", 362>>, <<"ram", 360>>,
      <<"ram", 352>>, <<"ram", 304>>, <<"ram", 256>>>>

StepNames ==
    <<"Configuration of Modem Failed", "Configuration of Sync Word Failed",
      "Configuration of Short Address Failed", "Configuration of Pan ID Failed",
      "Configuration of IEEE Address Failed",
      "Configuration of Tx Encryption Key Failed",
      "Configuration of Rx Decryption Key Failed">>

\* the value a register frame carries (little-endian), the bytes a RAM frame carries
WireValue(bytes) == bytes[2] + 256 * bytes[3]

\* step k of the log: its write is transport call 2k-1, its read-back call 2k
StepWrite(k) == Spi[2 * k - 1]

StepRead(k) == Spi[2 * k]

\* the read-back of step k was answered and differs from what was written:
\* in one of the defined bits 13:0 of modem control 0, in the sync word,
\* or in a byte of the RAM sector
ReadBackDiffers(k) ==
    /\ Len(Spi) >= 2 * k
    /\ StepRead(k).ok
    /\ IF k = 1 THEN WireValue(StepRead(k).in) % 16384 # WireValue(StepWrite(k).out) % 16384
       ELSE IF k = 2 THEN WireValue(StepRead(k).in) # WireValue(StepWrite(k).out)
       ELSE Tail(Tail(StepRead(k).in)) # Tail(Tail(StepWrite(k).out))

\* the read-back of step k was answered with what was written
ReadBackVerified(k) ==
    /\ Len(Spi) >= 2 * k
    /\ StepWrite(k).ok
    /\ StepRead(k).ok
    /\ ~ReadBackDiffers(k)

\* C4: configure applies its seven steps in the fixed order, each write followed
\* by its read-back; when the read-back of step k differs from the intended
\* value, configure returns FailedConfiguration naming step k and has made no
\* transport call after that read-back (none of a later step, no strobe).
C4_ConfigureStepsInOrder ==
    call.name = "configure" =>
        /\ \A i \in 1..Len(Spi) : i <= 14 =>
              /\ Target(Spi[i]) = StepTargets[(i + 1) \div 2]
              /\ Spi[i].kind = "transfer"
              /\ i % 2 = 0 => \A j \in 2..Len(Spi[i].out) : Spi[i].out[j] \in {0, 160}
              /\ (i % 2 = 0 /\ i > 4) => Spi[i].out[2] = Spi[i - 1].out[2] + 32
              /\ i > 1 => Spi[i - 1].ok
        /\ \A k \in 1..7 : ReadBackDiffers(k) =>
              /\ pc = "returned"
              /\ ret.kind = "FailedConfiguration"
              /\ ret.msg = StepNames[k]
              /\ Len(Spi) = 2 * k
        /\ ret.kind = "FailedConfiguration" => ReadBackDiffers(Len(Spi) \div 2)

\* C4 witness: the read-back of the sync word differed and configure stopped there
C4_Witness ==
    /\ Returned("configure")
    /\ ret.kind = "FailedConfiguration"
    /\ ret.msg = "Configuration of Sync Word Failed"
    /\ ReadBackDiffers(2)
    /\ Len(Spi) = 4

\* C5: in configure the oscillator-on strobe is sent only after all seven
\* read-backs have verified, and the calibration strobe only when the status
\* most recently returned by the chip has the oscillator-stable flag (bit 6) set.
C5_CalibrateAfterStable ==
    call.name = "configure" =>
        \A i \in 1..Len(Spi) :
            /\ IsStrobe(Spi[i], 1) =>
                  /\ i = 15
                  /\ \A k \in 1..7 : ReadBackVerified(k)
            /\ IsStrobe(Spi[i], 2) =>
                  /\ i > 15
                  /\ IsStrobe(Spi[i - 1], 1) \/ IsStrobe(Spi[i - 1], 0)
                  /\ Spi[i - 1].ok
                  /\ (Spi[i - 1].in[1] \div 64) % 2 = 1

\* C5 witness: the calibration strobe went out after the oscillator was polled
C5_Witness ==
    /\ Returned("configure")
    /\ Len(Spi) >= 17
    /\ IsStrobe(Spi[15], 1)
    /\ (Spi[15].in[1] \div 64) % 2 = 0
    /\ IsStrobe(Spi[Len(Spi) - 1], 0)
    /\ IsStrobe(Spi[Len(Spi)], 2)

\* C6: no step of configure other than its successful return changes
\* powered_up, so a configure that returns an error leaves it as it was.
C6_ConfigureErrorKeepsPower ==
    [][(call'.name = "configure" /\ ~(pc' = "returned" /\ ret'.kind = "Ok"))
          => powered_up' = powered_up]_vars

\* C7: powered_up is false after new; it becomes true only in power_up or
\* configure, becomes false only in a power_down that completed both strobes,
\* and a power_up or power_down that returns a transport error leaves it as it was.
C7_PowerStateMachine ==
    /\ ~powered_up
    /\ [][/\ (~powered_up /\ powered_up') => call'.name \in {"power_up", "configure"}
          /\ (powered_up /\ ~powered_up') =>
                /\ call'.name = "power_down"
                /\ ret'.kind = "Ok"
                /\ Len(io') = 2
                /\ IsStrobe(io'[1], 6) /\ io'[1].ok
                /\ IsStrobe(io'[2], 7) /\ io'[2].ok
          /\ (call'.name \in {"power_up", "power_down"} /\ ret'.kind = "SpiError")
                => powered_up' = powered_up]_vars

\* C7 witness: a powered controller that power_down has just switched off
C7_Witness ==
    /\ Returned("power_down")
    /\ ret.kind = "Ok"
    /\ ~powered_up

\* the fixed length of each RAM sector
SectorLength ==
    [ShortAddress |-> 2, PanID |-> 2, IEEEAddress |-> 8, TxNonce |-> 16,
     Key1 |-> 16, EncryptionBuffer |-> 16, RxNonce |-> 16, Key0 |-> 16,
     RxFifo |-> 128, TxFifo |-> 128]

\* C8: write_ram and read_ram reject a buffer whose length differs from the
\* sector's with InvalidBufferLenth{expected: sector length, found: buffer
\* length} and no transport call; with the sector's length they make exactly
\* one transfer of 2 + length bytes.
C8_RamLengthChecked ==
    (Returned("write_ram") \/ Returned("read_ram")) =>
        IF call.n # SectorLength[call.ram]
        THEN /\ ret.kind = "InvalidBufferLenth"
             /\ ret.expected = SectorLength[call.ram]
             /\ ret.found = call.n
             /\ io = <<>>
        ELSE /\ ret.kind \in {"Ok", "SpiError"}
             /\ Len(io) = 1
             /\ io[1].kind = "transfer"
             /\ Len(io[1].out) = 2 + SectorLength[call.ram]

\* C8 witness: a 3-byte buffer written to the 2-byte PanID sector was rejected
C8_Witness ==
    /\ Returned("write_ram")
    /\ call.ram = "PanID"
    /\ call.n = 3
    /\ ret.kind = "InvalidBufferLenth"
    /\ ret.expected = 2
    /\ ret.found = 3

\* C9: send_frame with a payload longer than 128 bytes fails with
\* InvalidBufferLenth{expected: 128, found: length} and makes no transport call.
C9_SendFrameTooLong ==
    (Returned("send_frame") /\ Len(call.data) > 128) =>
        /\ ret.kind = "InvalidBufferLenth"
        /\ ret.expected = 128
        /\ ret.found = Len(call.data)
        /\ io = <<>>

\* C10: as soon as a transport call of a method fails, the method returns
\* SpiError and makes no further transport call.
C10_TransportErrorSurfaced ==
    \A i \in 1..Len(Spi) : ~Spi[i].ok =>
        /\ i = Len(Spi)
        /\ pc = "returned"
        /\ ret.kind = "SpiError"

(***************************************************************************)
(* Properties of the register codecs                                        *)
(***************************************************************************)
\* the legal range each register field is declared with
DeclaredRange ==
    [ModemControlRegister0 |->
        [reserved_frame_mode |-> BOOLEAN, pan_coordinator |-> BOOLEAN,
         adr_decode |-> BOOLEAN, cca_hyst |-> 0..7, cca_mode |-> 1..3,
         auto_crc |-> BOOLEAN, auto_ack |-> BOOLEAN, preamble_length |-> 0..15],
     FrequencySynthesizerRegister |->
        [lock_threshold |-> 0..3, cal_done |-> BOOLEAN, cal_running |-> BOOLEAN,
         lock_length |-> BOOLEAN, lock_status |-> BOOLEAN, frequency |-> 0..1023],
     ReceiveControlRegister1 |->
        [rxbpf_locur |-> BOOLEAN, rxbpf_midcur |-> BOOLEAN, low_lowgain |-> BOOLEAN,
         med_lowgain |-> BOOLEAN, high_hgm |-> BOOLEAN, med_hgm |-> BOOLEAN,
         lna_cap_array |-> 0..3, rxmix_tail |-> 0..3, rxmix_vcm |-> 0..3,
         rxmix_current |-> 0..3],
     FiniteStateMachineConstants |->
        [tc_rxchain_to_rx |-> 0..7, tc_switch_to_tx |-> 0..7, tc_paon_to_tx |-> 0..15,
         tc_txend_to_switch |-> 0..7, tc_txend_to_paoff |-> 0..7],
     IOConfigurationRegister1 |->
        [hssd_src |-> {0, 1, 2, 3, 6, 7}, sfd_mux |-> 0..31, cca_mux |-> 0..31],
     RSSIRegister |->
        [cca_threshold |-> -128..127, rssi_value |-> -128..127],
     BatteryMonitorRegister |->
        [battmon_ok |-> BOOLEAN, battmon_en |-> BOOLEAN, battmon_voltage |-> 0..31]]

\* the fields documented as read-only
ReadOnlyFields ==
    [ModemControlRegister0 |-> {},
     FrequencySynthesizerRegister |-> {"cal_done", "cal_running", "lock_status"},
     ReceiveControlRegister1 |-> {},
     FiniteStateMachineConstants |-> {},
     IOConfigurationRegister1 |-> {},
     RSSIRegister |-> {"rssi_value"},
     BatteryMonitorRegister |-> {"battmon_ok"}]

\* a register is being taken through its builder and codec
OfRegister == codec.type \in DOMAIN FieldValues

\* every field the caller set is within its declared range
InDeclaredRange ==
    \A f \in DOMAIN codec.arg : codec.arg[f] \subseteq DeclaredRange[codec.type][f]

\* the register build gave, the value register_value gave, what from gave
Built == CHOOSE r \in codec.register : TRUE

Wire == CHOOSE v \in codec.wire : TRUE

Decoded == CHOOSE d \in codec.decoded : TRUE

\* C11: decoding the 16-bit value produced by encoding recovers every
\* read-write field, for every value of a field in its declared legal range
\* with the other fields at their defaults.
C11_DecodeRecoversEncoded ==
    (OfRegister /\ codec.step = "decoded" /\ InDeclaredRange) =>
        \A f \in DOMAIN Built \ ReadOnlyFields[codec.type] : Decoded[f] = Built[f]

\* C12: build fails with a message when a field is set outside its declared
\* range and succeeds when every field set is within it.
C12_BuildChecksRanges ==
    (OfRegister /\ codec.step # "new") =>
        IF InDeclaredRange
        THEN codec.step # "failed" /\ codec.register # {}
        ELSE codec.step = "failed" /\ codec.error # ""

\* C13: register_value ignores the read-only fields: changing a read-only
\* field of the register to any other value leaves the encoded value the same.
C13_ReadOnlyNotEncoded ==
    (OfRegister /\ codec.step \in {"encoded", "decoded"}) =>
        \A f \in ReadOnlyFields[codec.type] : \A v \in FieldValues[codec.type][f] :
            RegisterValue(codec.type, [Built EXCEPT ![f] = v]) = Wire

\* the registers' own defaults, as their builders build them
DefaultModemControl0 ==
    ModemControlRegister0Builder_build(ModemControlRegister0Builder_default)

DefaultSyncWord == SyncWordRegisterBuilder_build([sync_word |-> {}])

\* C14: configure called with the default Configuration writes modem control 0
\* with the register's default encoding (CRC and address decoding on, PAN
\* coordinator and auto-acknowledge off) and the sync word register with
\* 0xA70F, the value of SyncWordRegister's own default.
C14_DefaultsAreResetValues ==
    (call.name = "configure" /\ call.config = DefaultConfiguration) =>
        /\ Len(Spi) >= 1 =>
              /\ DefaultModemControl0.auto_crc /\ DefaultModemControl0.adr_decode
              /\ ~DefaultModemControl0.pan_coordinator /\ ~DefaultModemControl0.auto_ack
              /\ Spi[1].out = write_value(RegisterAddress.MDMCTRL0,
                                  ModemControlRegister0_register_value(DefaultModemControl0))
        /\ Len(Spi) >= 3 =>
              /\ SyncWordRegister_register_value(DefaultSyncWord) = 42767
              /\ Spi[3].out = write_value(RegisterAddress.SYNCWORD, 42767)

\* the 9-bit base address of each RAM sector
SectorBase ==
    [ShortAddress |-> 362, PanID |-> 360, IEEEAddress |-> 352, TxNonce |-> 320,
     Key1 |-> 304, EncryptionBuffer |-> 288, RxNonce |-> 272, Key0 |-> 256,
     RxFifo |-> 128, TxFifo |-> 0]

\* the address pair of base address a: 0x80 | a[6:0], then the bank a[8:7] in
\* bits 7:6 and the direction in bit 5
AddressPair(a, read) == <<128 + (a % 128), 64 * (a \div 128) + (IF read THEN 32 ELSE 0)>>

\* C15: read_address and write_address of a sector return the same first byte
\* 0x80 | (a & 0x7F); their second bytes carry the bank in bits 7:6 and differ
\* only in bit 5, set for read and clear for write; distinct sectors have
\* distinct address pairs.
C15_RamAddresses ==
    (codec.type = "Ram" /\ codec.step = "decoded") =>
        LET a == SectorBase[codec.arg] IN
        /\ Wire = AddressPair(a, TRUE)
        /\ Decoded = AddressPair(a, FALSE)
        /\ codec.arg = "ShortAddress" => Wire = <<234, 160>> /\ Decoded = <<234, 128>>
        /\ codec.arg = "RxFifo" => Wire = <<128, 96>> /\ Decoded = <<128, 64>>
        /\ codec.arg = "TxFifo" => Wire = <<128, 32>> /\ Decoded = <<128, 0>>
        /\ \A other \in RamSectors \ {codec.arg} :
              /\ read_address(other) \notin {Wire, Decoded}
              /\ write_address(other) \notin {Wire, Decoded}

\* C15 witness: both addresses of the short address sector have been looked up
C15_Witness ==
    /\ codec.type = "Ram"
    /\ codec.step = "decoded"
    /\ codec.arg = "ShortAddress"
    /\ Wire = <<234, 160>>
    /\ Decoded = <<234, 128>>

\* C16: send called with data whose length is a multiple of 128 ends, after
\* the full 128-byte chunks, with a buffer-write frame that is the 0x3E opcode
\* byte alone.
C16_MultipleOf128EndsEmpty ==
    (Returned("send") /\ ret.kind = "Ok" /\ Len(call.data) % 128 = 0) =>
        /\ Len(TxFifoFrames) = Len(call.data) \div 128 + 1
        /\ TxFifoFrames[Len(TxFifoFrames)].out = <<62>>

\* C17: configure called with a preamble_length outside 0..15 returns
\* InvalidConfiguration carrying the field's range message, makes no transport
\* call and no delay call, and leaves powered_up as it was.
C17_InvalidPreambleRejected ==
    [][(pc = "ready" /\ call'.name = "configure"
            /\ call'.config.preamble_length \notin 0..15) =>
          /\ pc' = "returned"
          /\ ret'.kind = "InvalidConfiguration"
          /\ ret'.msg = "Invalid Preamble Length, Expected 0<=PREAMBLE_LENGTH<=15"
          /\ io' = <<>>
          /\ powered_up' = powered_up]_vars

\* C17 witness: a powered controller has refused a preamble length of 16
C17_Witness ==
    /\ Returned("configure")
    /\ call.config.preamble_length = 16
    /\ ret.kind = "InvalidConfiguration"
    /\ io = <<>>
    /\ powered_up

\* the reply of the one transfer of a RAM read is what the setter stored
AnsweredWith(stored) ==
    /\ Len(io) = 1
    /\ io[1].ok
    /\ Slice(io[1].in, 2, Len(io[1].in)) = stored

\* C18: set_short_address(v) and set_pan_id(v) put v on the wire big-endian
\* after the two address bytes, and read_short_address and read_pan_id return
\* v when the RAM answers with what the setter wrote.
C18_ShortAddressAndPanIdBigEndian ==
    /\ (Returned("set_short_address") \/ Returned("set_pan_id")) =>
          /\ Len(io) = 1
          /\ Len(io[1].out) = 4
          /\ Slice(io[1].out, 2, 4) = <<call.value \div 256, call.value % 256>>
    /\ (Returned("read_short_address")
            /\ AnsweredWith(Stored(set_short_address(call.value, TRUE, 0)))) =>
          ret.kind = "Ok" /\ ret.value = <<call.value>>
    /\ (Returned("read_pan_id")
            /\ AnsweredWith(Stored(set_pan_id(call.value, TRUE, 0)))) =>
          ret.kind = "Ok" /\ ret.value = <<call.value>>

\* C18 witness: 0x1234 was read back from a RAM holding the bytes 0x12, 0x34
C18_Witness ==
    /\ Returned("read_short_address")
    /\ call.value = 4660
    /\ io[1].in = <<DroppedStatus, 0, 18, 52>>
    /\ ret.value = <<4660>>

\* bit k of a byte
Bit(b, k) == (b \div Pow2(k)) % 2 = 1

\* C19: decoding a status byte yields xosx_stable = bit 6, tx_underflow = bit 5,
\* enc_busy = bit 4, tx_active = bit 3, lock = bit 2, rssi valid = bit 1, and
\* bits 7 and 0 have no effect; 0b0100_0000 decodes to xosx_stable alone.
C19_StatusDecode ==
    (codec.type = "RadioStatus" /\ codec.step = "decoded") =>
        /\ Decoded = [xosx_stable |-> Bit(codec.arg, 6), tx_underflow |-> Bit(codec.arg, 5),
                      enc_busy |-> Bit(codec.arg, 4), tx_active |-> Bit(codec.arg, 3),
                      lock |-> Bit(codec.arg, 2), rssi_valud |-> Bit(codec.arg, 1)]
        /\ \A other \in 0..255 :
              (other \div 2) % 64 = (codec.arg \div 2) % 64 => RadioStatus(other) = Decoded
        /\ codec.arg = 64 => Decoded = [NoStatus EXCEPT !.xosx_stable = TRUE]

\* C19 witness: 0b1100_0001 decoded to xosx_stable alone
C19_Witness ==
    /\ codec.type = "RadioStatus"
    /\ codec.step = "decoded"
    /\ codec.arg = 193
    /\ Decoded = [NoStatus EXCEPT !.xosx_stable = TRUE]

\* the command strobes in datasheet order, SNOP first and SAES last
DatasheetOrder ==
    <<"ReadStatus", "XOSCOn", "CalibrateFrequency", "EnableRx", "EnableTx",
      "EnableTxCCA", "DisableRxTx", "XOSCOff", "FlushRx", "FlushTx", "Ack",
      "AckPend", "RxDecryption", "TxEncryption", "AesEncryption">>

\* C20: opcode maps the 15 command strobes one-to-one onto 0x00..0x0E in
\* datasheet order, the TX-FIFO write to 0x3E and the RX-FIFO read to 0x3F;
\* there are 17 strobes and no two of them share an opcode.
C20_OpcodeInjective ==
    (codec.type = "Strobe" /\ codec.step = "encoded") =>
        /\ Cardinality(DOMAIN Strobe) = 17
        /\ DOMAIN Strobe = {DatasheetOrder[i] : i \in 1..15} \cup {"TxFifo", "RxFifo"}
        /\ \A i \in 1..15 : codec.arg = DatasheetOrder[i] => Wire = i - 1
        /\ codec.arg = "TxFifo" => Wire = 62
        /\ codec.arg = "RxFifo" => Wire = 63
        /\ \A other \in DOMAIN Strobe \ {codec.arg} : opcode(other) # Wire

\* C20 witness: the opcode of SAES, the last command strobe, was looked up
C20_Witness ==
    /\ codec.type = "Strobe"
    /\ codec.step = "encoded"
    /\ codec.arg = "AesEncryption"
    /\ Wire = 14

\* the data bytes of a frame or of its reply: after the one address byte of a
\* register access (k <= 2), after the two address bytes of a RAM access
FrameData(k, bytes) == IF k <= 2 THEN Tail(bytes) ELSE Tail(Tail(bytes))

\* the chip answered the read-back of step k with exactly what step k wrote
FaithfulReadBack(k) == FrameData(k, StepRead(k).in) = FrameData(k, StepWrite(k).out)

\* every transport call so far succeeded and every read-back so far was faithful
FaithfulChip ==
    /\ \A i \in 1..Len(Spi) : Spi[i].ok
    /\ \A k \in 1..7 : Len(Spi) >= 2 * k => FaithfulReadBack(k)

\* C21: against a chip that stores every register and RAM write faithfully and
\* returns the stored value on read-back, configure with a preamble_length in
\* 0..15 never returns FailedConfiguration or InvalidConfiguration, goes on
\* past each of the seven comparisons, and returns Ok once the oscillator is
\* reported stable.
C21_ConfigureSucceedsOnFaithfulChip ==
    (call.name = "configure" /\ call.config.preamble_length \in 0..15 /\ FaithfulChip) =>
        /\ pc # "panicked"
        /\ pc = "returned" =>
              /\ ret.kind = "Ok"
              /\ Len(Spi) >= 16
              /\ \A k \in 1..7 : ReadBackVerified(k)
              /\ powered_up

\* C21 witness: configure returned Ok for a configuration whose short address,
\* PAN id and TX key are not the defaults, every read-back being faithful
C21_Witness ==
    /\ Returned("configure")
    /\ ret.kind = "Ok"
    /\ FaithfulChip
    /\ call.config.short_address = <<171, 205>>
    /\ call.config.pan_identifier = <<34, 17>>
    /\ call.config.tx_encryption_key # Zeros(16)
    /\ \A k \in 1..7 : FaithfulReadBack(k)

\* configure is in its oscillator wait: the loop's condition is tested next
InOscillatorWait == call.name = "configure" /\ pc = "configure_wait"

\* all seven steps of configure have verified and none of its calls failed
SevenStepsVerified == call.name = "configure" /\ pc \in {"configure_xosc", "configure_wait"}

\* the step appends one successful status read (SNOP) answered with the status
\* the loop then tests, and the 100 us delay after it
PollsAgain ==
    /\ pc' = "configure_wait"
    /\ Len(io') = Len(io) + 2
    /\ SubSeq(io', 1, Len(io)) = io
    /\ io'[Len(io) + 1] = Transfer(<<0>>, TRUE, <<local'.status>>)
    /\ io'[Len(io) + 2] = Delay(100)

\* the step appends one failed status read and returns the transport error
PollFails ==
    /\ pc' = "returned"
    /\ ret' = SpiError
    /\ io' = Append(io, Transfer(<<0>>, FALSE, <<>>))

\* the step appends the calibration strobe and returns
LeavesWait ==
    /\ pc' = "returned"
    /\ Len(io') = Len(io) + 1
    /\ SubSeq(io', 1, Len(io)) = io
    /\ IsStrobe(io'[Len(io')], 2)

\* C22: the oscillator wait of configure has no timeout. While the status
\* last observed lacks the oscillator-stable flag, the only thing configure
\* does is read the status again and delay 100 us (or return the transport
\* error of that read); it leaves the wait, issuing the calibration strobe,
\* only from a status with the flag set. Once all seven steps have verified,
\* with a chip that reports the oscillator stable after finitely many status
\* reads, configure eventually returns.
C22_OscillatorWaitEnds ==
    /\ [][InOscillatorWait =>
            IF RadioStatus(local.status).xosx_stable THEN LeavesWait
            ELSE PollsAgain \/ PollFails]_vars
    /\ SevenStepsVerified ~> Returned("configure")

\* C22 witness: the oscillator-on strobe and then MaxPoll status reads were
\* answered not-stable, the next one stable, and configure returned Ok
C22_Witness ==
    /\ Returned("configure")
    /\ ret.kind = "Ok"
    /\ Len(Spi) = 15 + MaxPoll + 2
    /\ \A i \in 15..(15 + MaxPoll) : ~RadioStatus(Spi[i].in[1]).xosx_stable
    /\ RadioStatus(Spi[15 + MaxPoll + 1].in[1]).xosx_stable
    /\ IsStrobe(Spi[15 + MaxPoll + 1], 0)

\* how many TX-FIFO writes the log holds before position i
FifoWritesBefore(i) == Len(SelectSeq(SubSeq(io, 1, i - 1), IsTxFifoWrite))

\* position i of the log is the FIFO write of one of the full 128-byte chunks
IsChunkWrite(i) ==
    /\ IsTxFifoWrite(io[i])
    /\ FifoWritesBefore(i) < Len(call.data) \div 128

\* C23: in send the TX FIFO is flushed once, before the first FIFO write; the
\* FIFO write of each full 128-byte chunk carries that chunk and is directly
\* followed by the TX strobe (STXONCCA when cca, STXON otherwise); between
\* that strobe and the next FIFO write there are only reads of the frame-start
\* line, each low reading followed by a 100 us delay, and the next FIFO write
\* comes directly after a reading of not low; an error of the line ends send
\* with GpioError and is the last entry of the log.
C23_SendChunkOrder ==
    call.name = "send" =>
        /\ Len(io) >= 1 => (io[1].kind = "transfer" /\ IsStrobe(io[1], 9))
        /\ \A i \in 2..Len(io) : ~IsStrobe(io[i], 9)
        /\ \A i \in 1..Len(io) : IsChunkWrite(i) =>
              /\ io[i].out = <<62>> \o Slice(call.data, 128 * FifoWritesBefore(i),
                                                128 * FifoWritesBefore(i) + 128)
              /\ (io[i].ok /\ i < Len(io)) =>
                    /\ io[i + 1].kind = "write"
                    /\ io[i + 1].out = <<IF call.cca THEN 5 ELSE 4>>
              /\ (i + 1 < Len(io) /\ io[i + 1].ok) => io[i + 2].kind = "sfd"
        /\ \A i \in 1..Len(io) : IsTxFifoWrite(io[i]) =>
              IF FifoWritesBefore(i) = 0 THEN i = 2
              ELSE io[i - 1] = Pin("sfd", "no")
        /\ \A i \in 1..Len(io) : io[i].kind = "sfd" =>
              /\ io[i].in = <<1>> => (i < Len(io) /\ io[i + 1] = Delay(100))
              /\ (io[i].in = <<1>> /\ i + 1 < Len(io)) => io[i + 2].kind = "sfd"
              /\ ~io[i].ok => (i = Len(io) /\ pc = "returned" /\ ret = GpioError)
        /\ ret = GpioError => (io[Len(io)].kind = "sfd" /\ ~io[Len(io)].ok)

\* C23 witness: 256 bytes; the first chunk was followed by its strobe, a low
\* reading, the delay and a reading of not low, then the second chunk and its
\* strobe went out and the line failed
C23_Witness ==
    /\ Returned("send")
    /\ ret = GpioError
    /\ Len(call.data) = 256
    /\ Len(io) = 9
    /\ IsChunkWrite(2)
    /\ io[3].out = <<TxStrobe(call.cca)>>
    /\ io[4] = Pin("sfd", "yes")
    /\ io[6] = Pin("sfd", "no")
    /\ IsChunkWrite(7)
    /\ io[9] = Pin("sfd", "err")

\* C24: send_frame with a payload of at most 128 bytes makes, when no
\* transport call fails, exactly three transport transactions and nothing
\* else: the TX-flush strobe 0x09, one buffer-write frame [0x3E, data...] of
\* 1 + len bytes, one TX strobe (0x05 when cca, 0x04 otherwise); the status it
\* returns is decoded from the byte answered to that last strobe. A failed
\* transaction is the last one.
C24_SendFrameThreeTransactions ==
    (Returned("send_frame") /\ Len(call.data) <= 128) =>
        /\ Len(io) <= 3
        /\ \A i \in 1..Len(io) : io[i].kind = "transfer" /\ (i < Len(io) => io[i].ok)
        /\ (\A i \in 1..Len(io) : io[i].ok) =>
              /\ Len(io) = 3
              /\ io[1].out = <<9>>
              /\ io[2].out = <<62>> \o call.data
              /\ Len(io[2].out) = 1 + Len(call.data)
              /\ io[3].out = <<IF call.cca THEN 5 ELSE 4>>
              /\ ret.kind = "Ok"
              /\ ret.status = [xosx_stable |-> Bit(io[3].in[1], 6),
                               tx_underflow |-> Bit(io[3].in[1], 5),
                               enc_busy |-> Bit(io[3].in[1], 4),
                               tx_active |-> Bit(io[3].in[1], 3),
                               lock |-> Bit(io[3].in[1], 2),
                               rssi_valud |-> Bit(io[3].in[1], 1)]

\* C24 witness: 128 bytes went out with STXONCCA, answered 0b0100_0110
C24_Witness ==
    /\ Returned("send_frame")
    /\ ret.kind = "Ok"
    /\ Len(call.data) = 128
    /\ call.cca
    /\ Len(io) = 3
    /\ Len(io[2].out) = 129
    /\ io[3].in = <<70>>
    /\ ret.status.xosx_stable /\ ret.status.lock /\ ret.status.rssi_valud

\* C25: after a successful configure the ShortAddress and PanID sectors hold
\* the two bytes of config.short_address and config.pan_identifier in the
\* order they have in the Configuration, byte 0 at the sector's first
\* address, as the IEEE address and the two keys are: the bytes written to
\* each sector, which the read-back then verified, are the configuration's.
C25_AddressBytesInConfigurationOrder ==
    (Returned("configure") /\ ret.kind = "Ok") =>
        /\ \A k \in 3..7 : ReadBackVerified(k) /\ Target(StepWrite(k)) = StepTargets[k]
        /\ FrameData(3, StepWrite(3).out) = call.config.short_address
        /\ FrameData(4, StepWrite(4).out) = call.config.pan_identifier
        /\ FrameData(5, StepWrite(5).out) = call.config.ieee_address
        /\ FrameData(6, StepWrite(6).out) = call.config.tx_encryption_key
        /\ FrameData(7, StepWrite(7).out) = call.config.rx_decryption_key

\* the decoder of the named register was applied to the 16-bit value w
DecodedFrom(type) ==
    /\ codec.type = "From"
    /\ codec.step = "decoded"
    /\ codec.arg.register = type

\* bits hi..lo of w as a number
Bits(w, hi, lo) == (w \div Pow2(lo)) % Pow2(hi - lo + 1)

\* C26: for every 16-bit w, decoding FrequencySynthesizerRegister yields
\* lock_threshold = w[15:14], cal_done = w[13], cal_running = w[12],
\* lock_length = w[11], lock_status = w[10] and frequency = the full ten bits
\* w[9:0], so every frequency 0..1023 decodes back unchanged.
C26_FrequencySynthesizerDecode ==
    DecodedFrom("FrequencySynthesizerRegister") =>
        /\ Decoded.lock_threshold = Bits(codec.arg.value, 15, 14)
        /\ Decoded.cal_done = Bit(codec.arg.value, 13)
        /\ Decoded.cal_running = Bit(codec.arg.value, 12)
        /\ Decoded.lock_length = Bit(codec.arg.value, 11)
        /\ Decoded.lock_status = Bit(codec.arg.value, 10)
        /\ Decoded.frequency = Bits(codec.arg.value, 9, 0)

\* C27: for every 16-bit w, decoding ReceiveControlRegister1 reads each flag
\* from the bit where encode places it: rxbpf_locur w[13], rxbpf_midcur w[12],
\* low_lowgain w[11], med_lowgain w[10], high_hgm w[9], med_hgm w[8], and
\* lna_cap_array, rxmix_tail, rxmix_vcm, rxmix_current from w[7:6], w[5:4],
\* w[3:2], w[1:0]; med_hgm does not depend on bit 10.
C27_ReceiveControl1Decode ==
    DecodedFrom("ReceiveControlRegister1") =>
        /\ Decoded.rxbpf_locur = Bit(codec.arg.value, 13)
        /\ Decoded.rxbpf_midcur = Bit(codec.arg.value, 12)
        /\ Decoded.low_lowgain = Bit(codec.arg.value, 11)
        /\ Decoded.med_lowgain = Bit(codec.arg.value, 10)
        /\ Decoded.high_hgm = Bit(codec.arg.value, 9)
        /\ Decoded.med_hgm = Bit(codec.arg.value, 8)
        /\ Decoded.lna_cap_array = Bits(codec.arg.value, 7, 6)
        /\ Decoded.rxmix_tail = Bits(codec.arg.value, 5, 4)
        /\ Decoded.rxmix_vcm = Bits(codec.arg.value, 3, 2)
        /\ Decoded.rxmix_current = Bits(codec.arg.value, 1, 0)

\* the select bit of security control register 0 each key setter targets
SelectBit == [set_standalone_key |-> 7, set_tx_key |-> 6, set_rx_key |-> 5]

\* one of the three key setters has returned
KeySetterReturned == call.name \in DOMAIN SelectBit /\ pc = "returned"

\* the value the setter read from the register, and the value its write carries
SecurityRead == fill_from_buffer(Spi[1].in)

SecurityWritten ==
    CHOOSE w \in 0..65535 : Spi[2].out = write_value(RegisterAddress.SECCTRL0, w)

\* C28: a key setter called with key_0 = true selects key 0, that is, writes
\* its select bit of SECCTRL0 (0: key 0 is used, 1: key 1 is used) as 0, and
\* called with key_0 = false it selects key 1, writing the bit as 1.
C28_KeyZeroWritesZero ==
    (KeySetterReturned /\ Len(Spi) = 2) =>
        Bit(SecurityWritten, SelectBit[call.name]) = ~call.key_0

\* C29: the key setters are read-modify-write on security control register 0:
\* the first transport call reads the register; when it fails the setter
\* returns that error and writes nothing; otherwise one write of the same
\* register follows, whose value has every defined bit 9:0 other than the
\* setter's select bit as it was read (the reserved bits 15:10 go out as 0).
C29_KeySettersReadModifyWrite ==
    KeySetterReturned =>
        /\ Len(Spi) >= 1
        /\ Spi[1].out = <<register_read_address(RegisterAddress.SECCTRL0), 0, 0>>
        /\ ~Spi[1].ok => (Len(Spi) = 1 /\ ret = SpiError)
        /\ Spi[1].ok =>
              /\ Len(Spi) = 2
              /\ Target(Spi[2]) = <<"register", RegisterAddress.SECCTRL0>>
              /\ \A b \in (0..9) \ {SelectBit[call.name]} :
                    Bit(SecurityWritten, b) = Bit(SecurityRead, b)
              /\ SecurityWritten < 1024

\* C29 witness: set_tx_key read 0b11_0010_0111 and wrote it back with bit 6
\* changed and nothing else
C29_Witness ==
    /\ Returned("set_tx_key")
    /\ ret.kind = "Ok"
    /\ Len(Spi) = 2
    /\ SecurityRead = 807
    /\ SecurityWritten = 871

\* the outbound bytes of the transport calls made, in order
Outbound == [i \in 1..Len(Spi) |-> Spi[i].out]

\* one TX-flush strobe, one buffer-write frame, one TX strobe
ThreeFrames == <<<<9>>, <<62>> \o call.data, <<IF call.cca THEN 5 ELSE 4>>>>

\* send or send_frame has returned Ok
SentOk == (Returned("send") \/ Returned("send_frame")) /\ ret.kind = "Ok"

\* C30 as stated: for every payload of at most 128 bytes and either cca, send
\* and send_frame put the same outbound bytes on the wire in the same order,
\* one TX-flush strobe, one buffer-write frame [0x3E, data...], one TX
\* strobe, and nothing else.
C30_SendEqualsSendFrame ==
    (SentOk /\ Len(call.data) <= 128) =>
        /\ Outbound = ThreeFrames
        /\ Len(io) = 3

\* C30 amended: the equivalence holds for payloads of fewer than 128 bytes;
\* with exactly 128 bytes send_frame still sends the three frames, while send
\* takes its chunk loop once and, after the three frames and the wait on the
\* frame-start line, sends a further buffer-write frame and a further TX strobe.
C30_SendEqualsSendFrameBelow128 ==
    /\ (SentOk /\ Len(call.data) < 128) =>
          /\ Outbound = ThreeFrames
          /\ Len(io) = 3
    /\ (SentOk /\ Len(call.data) = 128) =>
          /\ SubSeq(Outbound, 1, 3) = ThreeFrames
          /\ call.name = "send_frame" => Len(io) = 3
          /\ call.name = "send" =>
                /\ Len(Outbound) = 5
                /\ Outbound[4][1] = 62
                /\ Outbound[5] = ThreeFrames[3]
                /\ \E i \in 4..Len(io) : io[i] = Pin("sfd", "no")

\* C30 witness: send returned Ok for 127 bytes with the three frames that
\* send_frame sends for them
C30_Witness ==
    /\ Returned("send")
    /\ ret.kind = "Ok"
    /\ Len(call.data) = 127
    /\ call.cca
    /\ Outbound = <<<<9>>, <<62>> \o call.data, <<5>>>>
    /\ Len(io) = 3

====
